---- MODULE Spec2Model ----
(***************************************************************************)
(* A model of the 13F pipeline of InvestorInsight:                         *)
(*   - the scrape job loop and the temporal diff of two filings            *)
(*     (src/scheduler/tasks.py, src/cli.py, src/database/services.py);     *)
(*   - the CUSIP -> ticker resolver with its in-memory and on-disk cache   *)
(*     (src/app.py).                                                       *)
(*                                                                         *)
(* Conventions.  Strings that the code slices (cusip[:6]) are sequences of *)
(* one-character strings.  An Optional value is a sequence of length 0     *)
(* (None) or 1 (Some(v)).  A float percentage is the exact rational        *)
(* <<numerator, denominator>> in lowest terms, so the model does not       *)
(* reproduce IEEE rounding.                                                *)
(***************************************************************************)
EXTENDS Integers, Sequences, FiniteSets, TLC

VARIABLES
    filings,     \* table filings_13f, in insertion order (id = position)
    holdings,    \* table holdings, in insertion order
    calls,       \* arguments of every add_holdings_with_changes call so far
    jobStatus,   \* ScraperJob.status of the current scrape job
    jobPos,      \* index of the investor the job loop is at (0: no loop)
    CUSIP_CACHE,   \* app.py: the in-memory resolver cache, code -> ticker
    cacheFile,     \* the content of cusip_cache.json
    pc,            \* per thread: where its scrape_one run is
    scraped,       \* per thread: the holdings list of the document being parsed
    unknown,       \* per thread: list(set(unknown_cusips))
    batchStart,    \* per thread: the index i of the batch loop of the lookup
    new_mappings,  \* per thread: the results dict of lookup_cusips_openfigi
    requests,      \* per thread: the POSTs of the running lookup, <<i, outcome>>
    raised,        \* per thread: an exception left the resolver
    fileBuffer,    \* per thread: what json.dump put into its open file object
    applied,       \* the full codes whose mappings some thread merged since start
    amount_str,    \* the string _parse_amount_range is called with (<< >>: none yet)
    amount_result, \* what the call returned and logged (<< >>: not called yet)
    assets,        \* the Asset rows _parse_senate_assets built from the result
    document,      \* the raw information table document being parsed
    scrape_results,\* what the scrape_one runs on the document returned, in order
    xml_result,    \* what SEC13FScraper made of the document (<< >>: not run yet)
    CACHE,         \* app.py: the module-level dict CACHE of the web application
    CACHE_FILE,    \* the content of ./data/cache.json (<< >>: no file)
    runState,      \* per do_full_refresh run: "none", "requested", "running", "done"
    trigger,       \* per run: "api" (background task) or "scheduler" ("": not started)
    done,          \* per run: the local counter done of its loop
    visited,       \* per run: what scrape_one returned for each investor it visited
    response,      \* the answer of the last GET /api/refresh ("": none yet)
    description,   \* the description _categorize_asset is called with
    categories,    \* what the calls of _categorize_asset on it returned, in order
    disclosure,    \* the AnnualFinancialDisclosure calculate_totals is called on
    calculated,    \* calculate_totals has run on the disclosure
    pending,       \* the rows the job's session added and has not committed
    last_error     \* the last error the job loop logged: investor and rows pending then

dbVars == <<filings, holdings, calls, jobStatus, jobPos>>
resolverVars == <<CUSIP_CACHE, cacheFile, pc, scraped, unknown, batchStart,
                  new_mappings, requests, raised, fileBuffer, applied>>
amountVars == <<amount_str, amount_result, assets>>
scrapeVars == <<document, scrape_results, xml_result>>
refreshVars == <<CACHE, CACHE_FILE, runState, trigger, done, visited, response>>
disclosureVars == <<description, categories, disclosure, calculated>>
sessionVars == <<pending, last_error>>
extraVars == <<amountVars, scrapeVars, refreshVars, disclosureVars, sessionVars>>
vars == <<dbVars, resolverVars, extraVars>>

-----------------------------------------------------------------------------
(* Bounds of the model *)

NumInvestors == 2     \* rows of table superinvestors
MaxFilings == 2       \* filings the job may store
MaxRows == 2          \* holdings (infoTable rows) of one fetched filing
MaxDate == 2          \* filing dates are 1..MaxDate
MaxDocLen == 2        \* infoTable records of one document scrape_one parses
MaxAmountLen == 3     \* characters of an amount string outside the bracket table
MaxRecords == 3       \* infoTable records of one raw document
MaxRuns == 2          \* scrape_one runs on one document
MaxChain == 3         \* filings of one investor stored one after the other
MaxDescLen == 3       \* characters of a generated asset description
MaxCalls == 2         \* _categorize_asset calls on one description
MaxItems == 2         \* assets, and liabilities, of one disclosure

-----------------------------------------------------------------------------
(* Values *)

None == << >>
Some(v) == << v >>

Min(a, b) == IF a <= b THEN a ELSE b
Abs(n) == IF n < 0 THEN 0 - n ELSE n

RECURSIVE Gcd(_, _)
Gcd(a, b) == IF b = 0 THEN a ELSE Gcd(b, a % b)

\* n/d in lowest terms, d > 0
Rat(n, d) == LET g == Gcd(Abs(n), d) IN << n \div g, d \div g >>

\* Python truthiness of an Optional string (None and "" are falsy) and of an
\* integer (0 is falsy)
TruthyStr(x) == x # << >>
TruthyInt(n) == n # 0

\* Python `a or b` on strings and on integers
StrOr(a, b) == IF TruthyStr(a) THEN a ELSE b
IntOr(a, b) == IF TruthyInt(a) THEN a ELSE b

PrefixLen == 6
\* cusip[:6]
Prefix(cusip) == SubSeq(cusip, 1, Min(Len(cusip), PrefixLen))

\* The static curated table, restricted to the prefixes of the modelled codes
CUSIP_TO_TICKER == (<< "0", "3", "7", "8", "3", "3" >> :> << "A", "A", "P", "L" >>)

\* dict.get(key) with default None
DictGet(d, k) == IF k \in DOMAIN d THEN d[k] ELSE None

\* The identifier codes of the modelled filings: one the static table knows,
\* one it does not
CusipApple == << "0", "3", "7", "8", "3", "3", "1", "0", "0" >>
CusipOther == << "1", "1", "1", "1", "1", "A", "1", "0", "1" >>
\* A second security of the issuer of CusipOther (same 6-character prefix)
CusipOtherB == << "1", "1", "1", "1", "1", "A", "2", "0", "9" >>
Cusips == { CusipApple, CusipOther }
Shares == { 0, 80, 100 }
IssuerName(cusip) == IF cusip = CusipApple THEN "APPLE INC" ELSE "OTHER CORP"

\* One parsed holding as the scraper hands it to the job: the ticker comes from
\* the static table or is None, value is reported in the document
ParsedHolding(cusip, shares) ==
    [ cusip |-> cusip,
      ticker |-> DictGet(CUSIP_TO_TICKER, Prefix(cusip)),
      issuer_name |-> IssuerName(cusip),
      shares |-> shares,
      value |-> shares * 10 ]

ParsedRows == { ParsedHolding(c, s) : c \in Cusips, s \in Shares }

\* The holdings lists add_holdings_with_changes is applied to (non-empty: the
\* scraper returns no filing when it parsed no holding)
HoldingsData == UNION { [1..n -> ParsedRows] : n \in 1..MaxRows }

\* The holdings lists the scrape job fetches
FetchedHoldings ==
    { << ParsedHolding(CusipApple, 100) >>,
      << ParsedHolding(CusipOther, 80) >>,
      << ParsedHolding(CusipApple, 80), ParsedHolding(CusipOther, 80) >> }

Investors == 1..NumInvestors
Dates == 1..MaxDate

-----------------------------------------------------------------------------
(* Database queries: src/database/services.py *)

\* Largest element of a non-empty set of integers
MaxOf(S) == CHOOSE x \in S : \A y \in S : y <= x

\* session.query(Filing13F).filter_by(accession_number=acc).first() is not None
AccessionExists(acc) == \E i \in DOMAIN filings : filings[i].accession_number = acc

\* The filings of an investor that order_by(desc(filing_date)).first() may return:
\* those with the greatest filing_date (the database picks one on a tie)
LatestByDate(ids) == { i \in ids : \A j \in ids : filings[j].filing_date <= filings[i].filing_date }

\* FilingService.get_latest_filing: the set of possible results, {0} for None
GetLatestFiling(superinvestor_id) ==
    LET ids == { i \in DOMAIN filings : filings[i].superinvestor_id = superinvestor_id }
    IN  IF ids = {} THEN {0} ELSE LatestByDate(ids)

\* FilingService.get_previous_filing: the filing before a given date
GetPreviousFiling(superinvestor_id, before_date) ==
    LET ids == { i \in DOMAIN filings : /\ filings[i].superinvestor_id = superinvestor_id
                                        /\ filings[i].filing_date < before_date }
    IN  IF ids = {} THEN {0} ELSE LatestByDate(ids)

\* session.query(Holding).filter_by(filing_id=id).all()
HoldingsOfFiling(table, id) == SelectSeq(table, LAMBDA h : h.filing_id = id)

-----------------------------------------------------------------------------
(* HoldingService.add_holdings_with_changes *)

\* key = ticker or cusip
Key(h) == StrOr(h.ticker, h.cusip)

\* prev_holdings = {h.ticker or h.cusip: h for h in prev}: a later row of the
\* same key replaces the earlier one
PrevHoldings(prev) ==
    [ k \in { Key(prev[i]) : i \in DOMAIN prev } |->
        prev[MaxOf({ i \in DOMAIN prev : Key(prev[i]) = k })] ]

\* The keys of prev_holdings in dict (first insertion) order
PrevKeys(prev) ==
    LET first == SelectSeq([i \in DOMAIN prev |-> i],
                           LAMBDA i : \A j \in 1..(i - 1) : Key(prev[j]) # Key(prev[i]))
    IN  [ n \in DOMAIN first |-> Key(prev[first[n]]) ]

\* Change with the subtraction turned round (previous minus current)
ChangeWrongSign(h, prev_holdings) ==
    LET key == Key(h) IN
    IF key \in DOMAIN prev_holdings
    THEN LET prev == prev_holdings[key]
             shares_change == IntOr(prev.shares, 0) - h.shares
         IN  [ shares_change |-> Some(shares_change),
               shares_change_pct |->
                   IF TruthyInt(prev.shares) /\ prev.shares > 0
                   THEN Some(Rat(shares_change * 100, prev.shares)) ELSE None,
               is_new |-> FALSE ]
    ELSE [ shares_change |-> None, shares_change_pct |-> None, is_new |-> TRUE ]

\* Change with a new position recorded as a purchase of all its shares
ChangeNewAsFullBuy(h, prev_holdings) ==
    LET key == Key(h) IN
    IF key \in DOMAIN prev_holdings
    THEN LET prev == prev_holdings[key]
             shares_change == h.shares - IntOr(prev.shares, 0)
         IN  [ shares_change |-> Some(shares_change),
               shares_change_pct |->
                   IF TruthyInt(prev.shares) /\ prev.shares > 0
                   THEN Some(Rat(shares_change * 100, prev.shares)) ELSE None,
               is_new |-> FALSE ]
    ELSE [ shares_change |-> Some(h.shares), shares_change_pct |-> Some(Rat(100, 1)),
           is_new |-> TRUE ]

\* shares_change, shares_change_pct, is_new of one current holding
Change(h, prev_holdings) ==
    LET key == Key(h) IN
    IF key \in DOMAIN prev_holdings
    THEN LET prev == prev_holdings[key]
             shares_change == h.shares - IntOr(prev.shares, 0)
         IN  [ shares_change |-> Some(shares_change),
               shares_change_pct |->
                   IF TruthyInt(prev.shares) /\ prev.shares > 0
                   THEN Some(Rat(shares_change * 100, prev.shares)) ELSE None,
               is_new |-> FALSE ]
    ELSE [ shares_change |-> None, shares_change_pct |-> None, is_new |-> TRUE ]

\* The Holding row added for one current holding
CurrentRecord(superinvestor_id, filing_id, h, prev_holdings) ==
    LET c == Change(h, prev_holdings) IN
    [ superinvestor_id |-> superinvestor_id,
      filing_id |-> filing_id,
      cusip |-> h.cusip,
      ticker |-> h.ticker,
      issuer_name |-> h.issuer_name,
      shares |-> h.shares,
      value |-> h.value,
      shares_change |-> c.shares_change,
      shares_change_pct |-> c.shares_change_pct,
      is_new |-> c.is_new,
      is_sold |-> FALSE ]

\* The "sold" row created for a previous holding that is not in the current filing
SoldRecord(superinvestor_id, filing_id, prev_holding) ==
    [ superinvestor_id |-> superinvestor_id,
      filing_id |-> filing_id,
      cusip |-> prev_holding.cusip,
      ticker |-> prev_holding.ticker,
      issuer_name |-> prev_holding.issuer_name,
      shares |-> 0,
      value |-> 0,
      shares_change |-> IF TruthyInt(prev_holding.shares)
                        THEN Some(0 - prev_holding.shares) ELSE None,
      shares_change_pct |-> Some(Rat(0 - 100, 1)),
      is_new |-> FALSE,
      is_sold |-> TRUE ]

\* AddedHoldings without the test that the previous key is absent now
AddedSoldForEveryPrevious(table, superinvestor_id, filing_id, holdings_data, previous_filing_id) ==
    LET prev == IF previous_filing_id # 0
                THEN HoldingsOfFiling(table, previous_filing_id) ELSE << >>
        prev_holdings == PrevHoldings(prev)
        current == [ i \in DOMAIN holdings_data |->
                       CurrentRecord(superinvestor_id, filing_id, holdings_data[i],
                                     prev_holdings) ]
        sold_keys == PrevKeys(prev)
        sold == [ n \in DOMAIN sold_keys |->
                    SoldRecord(superinvestor_id, filing_id, prev_holdings[sold_keys[n]]) ]
    IN  current \o sold

\* The rows one call adds to table holdings: one per current holding, in order,
\* then one sold row per key of prev_holdings that is no current key
AddedHoldings(table, superinvestor_id, filing_id, holdings_data, previous_filing_id) ==
    LET prev == IF previous_filing_id # 0
                THEN HoldingsOfFiling(table, previous_filing_id) ELSE << >>
        prev_holdings == PrevHoldings(prev)
        current == [ i \in DOMAIN holdings_data |->
                       CurrentRecord(superinvestor_id, filing_id, holdings_data[i],
                                     prev_holdings) ]
        current_keys == { Key(holdings_data[i]) : i \in DOMAIN holdings_data }
        sold_keys == SelectSeq(PrevKeys(prev), LAMBDA k : k \notin current_keys)
        sold == [ n \in DOMAIN sold_keys |->
                    SoldRecord(superinvestor_id, filing_id, prev_holdings[sold_keys[n]]) ]
    IN  current \o sold

-----------------------------------------------------------------------------
(* The identity resolver of src/app.py *)

\* The threads that run scrape_one: 1 is the background do_full_refresh, 2 a
\* request thread serving /api/debug/refresh/{cik}
Threads == { 1, 2 }

BatchSize == 100

Digits == { "0", "1", "2", "3", "4", "5", "6", "7", "8", "9" }

TickerApple == << "A", "A", "P", "L" >>
TickerOther == << "O", "T", "H", "A" >>
TickerOtherB == << "O", "T", "H", "B" >>

\* The codes of the parsed documents and the documents (non-empty lists of codes)
Codes == { CusipApple, CusipOther, CusipOtherB }
Documents == UNION { [1..n -> Codes] : n \in 1..MaxDocLen }

\* What OpenFIGI holds for a code (figi_data["ticker"]) when it answers for it
OpenFigi ==
    (CusipApple :> TickerApple) @@ (CusipOther :> TickerOther)
        @@ (CusipOtherB :> TickerOtherB)

\* How one POST of a batch ends: status 200, status 429, another status, or an
\* exception inside the try block (timeout, malformed answer)
Outcomes == { "ok", "throttled", "error", "exception" }

Range(seq) == { seq[i] : i \in DOMAIN seq }
Orderings(S) ==
    { p \in [1..Cardinality(S) -> S] : \A i, j \in DOMAIN p : p[i] = p[j] => i = j }

\* dict.update(new): the new entries replace the old ones of the same key
DictUpdate(d, new) == new @@ d

\* The content of cusip_cache.json: size counts the entries written, valid says
\* whether json.load can read it back
AbsentFile == [ exists |-> FALSE, size |-> 0, valid |-> FALSE, json |-> << >> ]
TruncatedFile == [ exists |-> TRUE, size |-> 0, valid |-> FALSE, json |-> << >> ]

\* load_cusip_cache on a fresh process (CUSIP_CACHE = {}): the file's mappings,
\* and {} when the file is absent or json.load fails
LoadCusipCache(file) == IF file.exists /\ file.valid THEN file.json ELSE << >>

\* open(CUSIP_CACHE_FILE, 'w') of save_cusip_cache truncates the file
OpenForWrite(file) == TruncatedFile

\* Leaving the with block flushes the buffered text at offset 0 of the file: it
\* replaces the file's content when it is at least as long, and otherwise
\* leaves the tail of the longer text behind it, which is no JSON document
Flush(buffer, file) ==
    IF Cardinality(DOMAIN buffer) >= file.size
    THEN [ exists |-> TRUE, size |-> Cardinality(DOMAIN buffer), valid |-> TRUE,
           json |-> buffer ]
    ELSE [ exists |-> TRUE, size |-> file.size, valid |-> FALSE, json |-> << >> ]

\* get_ticker_for_cusip with the two cache probes exchanged
GetTickerPrefixFirst(cusip, cache) ==
    LET cusip_6 == Prefix(cusip) IN
    IF cusip_6 \in DOMAIN cache THEN cache[cusip_6]
    ELSE IF cusip \in DOMAIN cache THEN cache[cusip]
    ELSE IF cusip_6 \in DOMAIN CUSIP_TO_TICKER THEN CUSIP_TO_TICKER[cusip_6]
    ELSE cusip_6

\* get_ticker_for_cusip: exact cache entry, prefix cache entry, static table,
\* else the prefix (every cache entry the program writes carries a ticker)
GetTickerForCusip(cusip, cache) ==
    LET cusip_6 == Prefix(cusip) IN
    IF cusip \in DOMAIN cache THEN cache[cusip]
    ELSE IF cusip_6 \in DOMAIN cache THEN cache[cusip_6]
    ELSE IF cusip_6 \in DOMAIN CUSIP_TO_TICKER THEN CUSIP_TO_TICKER[cusip_6]
    ELSE cusip_6

\* len(ticker) == 6 and any(c.isdigit() for c in ticker)
LooksUnresolved(ticker) ==
    Len(ticker) = PrefixLen /\ \E i \in DOMAIN ticker : ticker[i] \in Digits

\* set(unknown_cusips) of resolve_unknown_cusips
UnknownCusips(hs, cache) ==
    { hs[i].cusip : i \in { j \in DOMAIN hs :
          /\ LooksUnresolved(hs[j].ticker)
          /\ hs[j].cusip \notin DOMAIN cache
          /\ Prefix(hs[j].cusip) \notin DOMAIN cache } }

\* unknown_cusips of resolve_unknown_cusips as a list: one element per holding
\* that looks unresolved and has no cache entry, in document order
UnknownList(hs, cache) ==
    LET sel == SelectSeq(hs, LAMBDA h : /\ LooksUnresolved(h.ticker)
                                        /\ h.cusip \notin DOMAIN cache
                                        /\ Prefix(h.cusip) \notin DOMAIN cache)
    IN  [ i \in DOMAIN sel |-> sel[i].cusip ]

\* LookupArguments without set(): the list goes to the lookup as collected
LookupArgumentsWithRepeats(hs, cache) == { UnknownList(hs, cache) }

\* list(set(unknown_cusips)): the lists lookup_cusips_openfigi may be called
\* with, every unknown code once, in the order the set iterates
LookupArguments(hs, cache) == Orderings(UnknownCusips(hs, cache))

\* batch = cusips[i:i+100]
Batch(cusips, i) == SubSeq(cusips, i + 1, Min(i + BatchSize, Len(cusips)))

\* results[cusip] = ...; results[cusip[:6]] = ... for an item with a ticker
StoreAnswer(results, cusip) ==
    (Prefix(cusip) :> OpenFigi[cusip]) @@ (cusip :> OpenFigi[cusip]) @@ results

\* The results dict after the first n items of the answer were handled
RECURSIVE MergeAnswer(_, _, _, _)
MergeAnswer(batch, answered, n, results) ==
    IF n = 0 THEN results
    ELSE LET sofar == MergeAnswer(batch, answered, n - 1, results)
             cusip == batch[n]
         IN  IF cusip \in answered
             THEN StoreAnswer(sofar, cusip)
             ELSE sofar

\* RequestEffect without the except clause: the exception leaves the function
RequestEffectUncaught(batch, outcome, answered, n, results) ==
    [ results |-> IF outcome \in { "ok", "exception" }
                  THEN MergeAnswer(batch, answered, n, results) ELSE results,
      raised |-> outcome = "exception" ]

\* One iteration of the batch loop of lookup_cusips_openfigi: the try block and
\* its except clause.  n is the number of answer items handled before the
\* outcome was reached.
RequestEffect(batch, outcome, answered, n, results) ==
    [ results |-> IF outcome \in { "ok", "exception" }
                  THEN MergeAnswer(batch, answered, n, results) ELSE results,
      raised |-> FALSE ]

\* Whether the batch loop sends the batch at i again after this outcome
Resend(outcome) == FALSE

\* The second loop of resolve_unknown_cusips: holdings that still look
\* unresolved take the ticker of the cache
RewriteTickers(hs, cache) ==
    [ i \in DOMAIN hs |->
        IF LooksUnresolved(hs[i].ticker)
        THEN IF hs[i].cusip \in DOMAIN cache
             THEN [ hs[i] EXCEPT !.ticker = cache[hs[i].cusip] ]
             ELSE IF Prefix(hs[i].cusip) \in DOMAIN cache
                  THEN [ hs[i] EXCEPT !.ticker = cache[Prefix(hs[i].cusip)] ]
                  ELSE hs[i]
        ELSE hs[i] ]

\* The resolver of a process that has just started with the given threads
ResolverStart(active) ==
    /\ CUSIP_CACHE = << >>
    /\ cacheFile = AbsentFile
    /\ pc = [ t \in Threads |-> IF t \in active THEN "idle" ELSE "off" ]
    /\ scraped = [ t \in Threads |-> << >> ]
    /\ unknown = [ t \in Threads |-> << >> ]
    /\ batchStart = [ t \in Threads |-> 0 ]
    /\ new_mappings = [ t \in Threads |-> << >> ]
    /\ requests = [ t \in Threads |-> << >> ]
    /\ raised = [ t \in Threads |-> FALSE ]
    /\ fileBuffer = [ t \in Threads |-> << >> ]
    /\ applied = {}

\* scrape_one, the record loop: every record with a cusip becomes a holding
\* whose ticker is get_ticker_for_cusip(cusip)
Parse(t) ==
    /\ pc[t] = "idle"
    /\ \E doc \in Documents :
          scraped' = [ scraped EXCEPT ![t] =
              [ i \in DOMAIN doc |->
                  [ cusip |-> doc[i],
                    ticker |-> GetTickerForCusip(doc[i], CUSIP_CACHE) ] ] ]
    /\ pc' = [ pc EXCEPT ![t] = "parsed" ]
    /\ UNCHANGED <<CUSIP_CACHE, cacheFile, unknown, batchStart, new_mappings,
                   requests, raised, fileBuffer, applied>>
    /\ UNCHANGED dbVars
    /\ UNCHANGED extraVars

\* resolve_unknown_cusips, first loop: nothing unknown returns the holdings,
\* otherwise lookup_cusips_openfigi(list(set(unknown_cusips))) starts
FindUnknown(t) ==
    /\ pc[t] = "parsed"
    /\ LET U == UnknownCusips(scraped[t], CUSIP_CACHE) IN
       IF U = {}
       THEN /\ pc' = [ pc EXCEPT ![t] = "done" ]
            /\ UNCHANGED <<unknown, batchStart, new_mappings, requests>>
       ELSE /\ \E order \in LookupArguments(scraped[t], CUSIP_CACHE) :
                  unknown' = [ unknown EXCEPT ![t] = order ]
            /\ batchStart' = [ batchStart EXCEPT ![t] = 0 ]
            /\ new_mappings' = [ new_mappings EXCEPT ![t] = << >> ]
            /\ requests' = [ requests EXCEPT ![t] = << >> ]
            /\ pc' = [ pc EXCEPT ![t] = "lookup" ]
    /\ UNCHANGED <<CUSIP_CACHE, cacheFile, scraped, raised, fileBuffer, applied>>
    /\ UNCHANGED dbVars
    /\ UNCHANGED extraVars

\* lookup_cusips_openfigi: one iteration of the batch loop; after the last
\* batch the function returns results
Request(t) ==
    /\ pc[t] = "lookup"
    /\ batchStart[t] < Len(unknown[t])
    /\ LET batch == Batch(unknown[t], batchStart[t]) IN
       \E outcome \in Outcomes, answered \in SUBSET Range(batch), n \in 0..Len(batch) :
          /\ outcome = "ok" => n = Len(batch)
          /\ outcome \in { "throttled", "error" } => n = 0
          /\ n = 0 => answered = {}
          /\ LET effect == RequestEffect(batch, outcome, answered, n, new_mappings[t])
                 next == IF Resend(outcome) THEN batchStart[t]
                         ELSE batchStart[t] + BatchSize
             IN  /\ new_mappings' = [ new_mappings EXCEPT ![t] = effect.results ]
                 /\ raised' = [ raised EXCEPT ![t] = raised[t] \/ effect.raised ]
                 /\ requests' = [ requests EXCEPT ![t] =
                                    Append(requests[t], << batchStart[t], outcome >>) ]
                 /\ batchStart' = [ batchStart EXCEPT ![t] = next ]
                 /\ pc' = [ pc EXCEPT ![t] =
                              IF next < Len(unknown[t]) THEN "lookup" ELSE "update" ]
    /\ UNCHANGED <<CUSIP_CACHE, cacheFile, scraped, unknown, fileBuffer, applied>>
    /\ UNCHANGED dbVars
    /\ UNCHANGED extraVars

\* resolve_unknown_cusips: if new_mappings: CUSIP_CACHE.update(new_mappings)
UpdateCache(t) ==
    /\ pc[t] = "update"
    /\ IF new_mappings[t] # << >>
       THEN /\ CUSIP_CACHE' = DictUpdate(CUSIP_CACHE, new_mappings[t])
            /\ applied' = applied \cup
                   { c \in DOMAIN new_mappings[t] : Len(c) > PrefixLen }
            /\ pc' = [ pc EXCEPT ![t] = "save_open" ]
       ELSE /\ pc' = [ pc EXCEPT ![t] = "done" ]
            /\ UNCHANGED <<CUSIP_CACHE, applied>>
    /\ UNCHANGED <<cacheFile, scraped, unknown, batchStart, new_mappings, requests,
                   raised, fileBuffer>>
    /\ UNCHANGED dbVars
    /\ UNCHANGED extraVars

\* save_cusip_cache: open(CUSIP_CACHE_FILE, 'w')
SaveOpen(t) ==
    /\ pc[t] = "save_open"
    /\ cacheFile' = OpenForWrite(cacheFile)
    /\ pc' = [ pc EXCEPT ![t] = "save_dump" ]
    /\ UNCHANGED <<CUSIP_CACHE, scraped, unknown, batchStart, new_mappings, requests,
                   raised, fileBuffer, applied>>
    /\ UNCHANGED dbVars
    /\ UNCHANGED extraVars

\* save_cusip_cache: json.dump(CUSIP_CACHE, f) serialises the cache as it is
\* now into the file object's buffer
SaveDump(t) ==
    /\ pc[t] = "save_dump"
    /\ fileBuffer' = [ fileBuffer EXCEPT ![t] = CUSIP_CACHE ]
    /\ pc' = [ pc EXCEPT ![t] = "save_close" ]
    /\ UNCHANGED <<CUSIP_CACHE, cacheFile, scraped, unknown, batchStart, new_mappings,
                   requests, raised, applied>>
    /\ UNCHANGED dbVars
    /\ UNCHANGED extraVars

\* save_cusip_cache: the with block ends, the buffer reaches the file
SaveClose(t) ==
    /\ pc[t] = "save_close"
    /\ cacheFile' = Flush(fileBuffer[t], cacheFile)
    /\ fileBuffer' = [ fileBuffer EXCEPT ![t] = << >> ]
    /\ pc' = [ pc EXCEPT ![t] = "rewrite" ]
    /\ UNCHANGED <<CUSIP_CACHE, scraped, unknown, batchStart, new_mappings, requests,
                   raised, applied>>
    /\ UNCHANGED dbVars
    /\ UNCHANGED extraVars

\* resolve_unknown_cusips: the holdings get their new tickers
Rewrite(t) ==
    /\ pc[t] = "rewrite"
    /\ scraped' = [ scraped EXCEPT ![t] = RewriteTickers(scraped[t], CUSIP_CACHE) ]
    /\ pc' = [ pc EXCEPT ![t] = "done" ]
    /\ UNCHANGED <<CUSIP_CACHE, cacheFile, unknown, batchStart, new_mappings, requests,
                   raised, fileBuffer, applied>>
    /\ UNCHANGED dbVars
    /\ UNCHANGED extraVars

\* scrape_one returns the filing to its caller
Return(t) ==
    /\ pc[t] = "done"
    /\ pc' = [ pc EXCEPT ![t] = "idle" ]
    /\ scraped' = [ scraped EXCEPT ![t] = << >> ]
    /\ unknown' = [ unknown EXCEPT ![t] = << >> ]
    /\ batchStart' = [ batchStart EXCEPT ![t] = 0 ]
    /\ new_mappings' = [ new_mappings EXCEPT ![t] = << >> ]
    /\ requests' = [ requests EXCEPT ![t] = << >> ]
    /\ UNCHANGED <<CUSIP_CACHE, cacheFile, raised, fileBuffer, applied>>
    /\ UNCHANGED dbVars
    /\ UNCHANGED extraVars

\* The process is restarted while no scrape runs: CUSIP_CACHE = {} and
\* load_cusip_cache() at import
Restart ==
    /\ \A t \in Threads : pc[t] \in { "idle", "off" }
    /\ CUSIP_CACHE' = LoadCusipCache(cacheFile)
    /\ applied' = {}
    /\ UNCHANGED <<cacheFile, pc, scraped, unknown, batchStart, new_mappings, requests,
                   raised, fileBuffer>>
    /\ UNCHANGED dbVars
    /\ UNCHANGED extraVars

-----------------------------------------------------------------------------
(* scrape_one of src/app.py as a whole: record loop, resolver, total,          *)
(* percentages and sort.                                                       *)

\* The raw records of a document: the cusip element may be missing (None); the
\* value element holds an integer.  A record without cusip is left before its
\* value is read, so one value stands for all of them
ScrapeCodes == { CusipApple, CusipOther }
ScrapeValues == { 0, 10, 20 }
RawRecords ==
    { [ cusip |-> c, value |-> v ] : c \in ScrapeCodes, v \in ScrapeValues }
    \cup { [ cusip |-> None, value |-> 10 ] }

\* The raw documents: the infoTable records in document order, and whether the
\* text is a well-formed XML document (a truncated download is not)
RawDocuments ==
    { [ records |-> rs, wellformed |-> w ] :
        rs \in UNION { [1..n -> RawRecords] : n \in 0..MaxRecords }, w \in BOOLEAN }

\* The record loop of scrape_one: re.findall takes every complete infoTable
\* block of the text, a block without a cusip element is skipped, every other
\* block becomes a holding with the ticker get_ticker_for_cusip gives
ParseRecords(doc, cache) ==
    LET kept == SelectSeq(doc.records, LAMBDA r : r.cusip # None)
    IN  [ i \in DOMAIN kept |->
            [ cusip |-> kept[i].cusip,
              ticker |-> GetTickerForCusip(kept[i].cusip, cache),
              value |-> kept[i].value ] ]

\* How one batch may be answered: the outcome, the codes OpenFIGI has data for
\* and the number of answer items handled before the outcome was reached
BatchPlans(batch) ==
    { p \in [ outcome : Outcomes, answered : SUBSET Range(batch), n : 0..Len(batch) ] :
        /\ p.outcome = "ok" => p.n = Len(batch)
        /\ p.outcome \in { "throttled", "error" } => p.n = 0
        /\ p.n = 0 => p.answered = {} }

\* range(0, len(cusips), 100): number of batches
NumBatches(cusips) == (Len(cusips) + BatchSize - 1) \div BatchSize

\* One plan per batch of a lookup
LookupPlans(cusips) ==
    { plan \in [ 1..NumBatches(cusips) ->
                   UNION { BatchPlans(Batch(cusips, (b - 1) * BatchSize)) :
                             b \in 1..NumBatches(cusips) } ] :
        \A b \in DOMAIN plan : plan[b] \in BatchPlans(Batch(cusips, (b - 1) * BatchSize)) }

\* lookup_cusips_openfigi: results after the first b batches
RECURSIVE LookupResults(_, _, _)
LookupResults(cusips, plan, b) ==
    IF b = 0 THEN << >>
    ELSE RequestEffect(Batch(cusips, (b - 1) * BatchSize), plan[b].outcome,
                       plan[b].answered, plan[b].n,
                       LookupResults(cusips, plan, b - 1)).results

\* resolve_unknown_cusips on the parsed holdings: the holdings, the cache and
\* the cache file afterwards
ResolveUnknown(hs, cache, file, cusips, plan) ==
    LET new == IF cusips = << >> THEN << >>
               ELSE LookupResults(cusips, plan, NumBatches(cusips))
    IN  IF new = << >>
        THEN [ holdings |-> hs, cache |-> cache, file |-> file ]
        ELSE LET updated == DictUpdate(cache, new)
             IN  [ holdings |-> RewriteTickers(hs, updated),
                   cache |-> updated,
                   file |-> Flush(updated, OpenForWrite(file)) ]

\* sum(h["value"] for h in holdings)
RECURSIVE SumValues(_)
SumValues(hs) == IF hs = << >> THEN 0 ELSE hs[1].value + SumValues(Tail(hs))

\* round((value / total) * 100, 2) in hundredths of a percent (ties to even),
\* 0 when total is 0
RoundedPct(value, total) ==
    IF total > 0
    THEN LET q == (value * 10000) \div total
             r == (value * 10000) % total
         IN  IF 2 * r < total THEN q
             ELSE IF 2 * r > total THEN q + 1
             ELSE IF q % 2 = 0 THEN q ELSE q + 1
    ELSE 0

\* The sort with equal values in reversed document order (ascending sort read
\* backwards)
RECURSIVE SortReversed(_)
SortReversed(hs) ==
    IF hs = << >> THEN << >>
    ELSE LET rest == SortReversed(SubSeq(hs, 1, Len(hs) - 1))
             h == hs[Len(hs)]
             before == SelectSeq(rest, LAMBDA x : x.value > h.value)
             after == SelectSeq(rest, LAMBDA x : x.value <= h.value)
         IN  before \o << h >> \o after

\* holdings.sort(key=lambda x: x["value"], reverse=True): a stable sort, the
\* elements of equal value stay in the order they had
RECURSIVE SortByValueDesc(_)
SortByValueDesc(hs) ==
    IF hs = << >> THEN << >>
    ELSE LET rest == SortByValueDesc(SubSeq(hs, 1, Len(hs) - 1))
             h == hs[Len(hs)]
             before == SelectSeq(rest, LAMBDA x : x.value >= h.value)
             after == SelectSeq(rest, LAMBDA x : x.value < h.value)
         IN  before \o << h >> \o after

\* The percentages with a zero total treated like any other total (every
\* holding an even share)
PctOrEvenShare(hs, total) ==
    [ i \in DOMAIN hs |->
        [ cusip |-> hs[i].cusip, ticker |-> hs[i].ticker, value |-> hs[i].value,
          pct |-> IF total > 0 THEN RoundedPct(hs[i].value, total)
                  ELSE 10000 \div Len(hs) ] ]

\* for h in holdings: h["pct"] = round(...) if total > 0 else 0
WithPct(hs, total) ==
    [ i \in DOMAIN hs |->
        [ cusip |-> hs[i].cusip, ticker |-> hs[i].ticker, value |-> hs[i].value,
          pct |-> RoundedPct(hs[i].value, total) ] ]

\* scrape_one from the record loop on: what it returns (result, error) and the
\* cache and cache file it leaves
ScrapeOne(doc, cache, file, cusips, plan) ==
    LET parsed == ParseRecords(doc, cache) IN
    IF parsed = << >>
    THEN [ result |-> None, error |-> "No holdings parsed", raised |-> FALSE,
           cache |-> cache, file |-> file ]
    ELSE LET resolved == ResolveUnknown(parsed, cache, file, cusips, plan)
             total == SumValues(resolved.holdings)
         IN  [ result |-> Some([ value |-> total,
                                 holdings |-> SortByValueDesc(WithPct(resolved.holdings, total)) ]),
               error |-> "",
               raised |-> FALSE,
               cache |-> resolved.cache, file |-> resolved.file ]

\* No document is being parsed
ScrapeIdle ==
    /\ document = << >>
    /\ scrape_results = << >>
    /\ xml_result = << >>

\* One run of scrape_one on the document
ScrapeOneRun ==
    /\ document # << >>
    /\ Len(scrape_results) < MaxRuns
    /\ LET arguments == LookupArguments(ParseRecords(document, CUSIP_CACHE), CUSIP_CACHE) IN
       \E cusips \in arguments : \E plan \in LookupPlans(cusips) :
          LET out == ScrapeOne(document, CUSIP_CACHE, cacheFile, cusips, plan) IN
          /\ scrape_results' = Append(scrape_results,
                 [ result |-> out.result, error |-> out.error, raised |-> out.raised ])
          /\ CUSIP_CACHE' = out.cache
          /\ cacheFile' = out.file
    /\ UNCHANGED <<document, xml_result>>
    /\ UNCHANGED <<pc, scraped, unknown, batchStart, new_mappings, requests, raised,
                   fileBuffer, applied>>
    /\ UNCHANGED <<sessionVars, disclosureVars, dbVars, amountVars, refreshVars>>

-----------------------------------------------------------------------------
(* SEC13FScraper of src/scrapers/sec_13f_scraper.py: _parse_13f_xml and the    *)
(* end of get_latest_filing, with the behaviour of xml.etree.ElementTree.     *)

\* bool(element) of an Element is len(element) > 0: an element without
\* children, such as <cusip>037833100</cusip>, is falsy
ElementTruthy(has_children) == has_children

\* find/findall with the predicate [local-name()="..."]: ElementPath knows no
\* such predicate and raises SyntaxError('invalid predicate')
LocalNamePathRaises == TRUE

\* get_text(parent, tag): the chain `find(..) or find(..) or find(..) or
\* find('.//*[local-name()=..]')` goes on to its last operand unless an earlier
\* find gave a truthy element; the elements read here are leaves
GetTextRaises(present) ==
    IF present /\ ElementTruthy(FALSE) THEN FALSE ELSE LocalNamePathRaises

\* One iteration of the infoTable loop: the Holding appended, or nothing when
\* the iteration ended in its except clause
ParseEntry(record) ==
    IF GetTextRaises(record.cusip # None)
    THEN << >>
    ELSE << [ cusip |-> record.cusip,
              ticker |-> IF TruthyStr(record.cusip)
                         THEN DictGet(CUSIP_TO_TICKER, Prefix(record.cusip)) ELSE None,
              value |-> record.value ] >>

RECURSIVE ParseEntries(_)
ParseEntries(records) ==
    IF records = << >> THEN << >>
    ELSE ParseEntry(records[1]) \o ParseEntries(Tail(records))

\* _parse_13f_xml: ET.fromstring raises ParseError on a text that is no XML
\* document (caught: None); the findall chain for infoTable ends in the
\* local-name() path when the first three give empty lists (SyntaxError, not
\* caught); otherwise the holdings that parsed, None when there is none
ParseXml(doc) ==
    IF ~doc.wellformed THEN [ holdings |-> None, raised |-> FALSE ]
    ELSE IF doc.records = << >> THEN [ holdings |-> None, raised |-> LocalNamePathRaises ]
    ELSE [ holdings |-> ParseEntries(doc.records), raised |-> FALSE ]

\* h.pct_portfolio = (h.value / total_value * 100) if total_value > 0 else 0,
\* as an exact fraction
ExactPct(hs, total) ==
    [ i \in DOMAIN hs |->
        [ cusip |-> hs[i].cusip, ticker |-> hs[i].ticker, value |-> hs[i].value,
          pct |-> IF total > 0 THEN Rat(hs[i].value * 100, total) ELSE << 0, 1 >> ] ]

\* get_latest_filing from get_13f_holdings on: None without holdings, else the
\* Filing13F with total, percentages and sorted holdings
GetLatestFilingXml(doc) ==
    LET parsed == ParseXml(doc) IN
    IF parsed.raised THEN [ filing |-> None, raised |-> TRUE ]
    ELSE IF parsed.holdings = << >> THEN [ filing |-> None, raised |-> FALSE ]
    ELSE LET total_value == SumValues(parsed.holdings)
         IN  [ filing |-> Some([ value |-> total_value,
                                 holdings |-> SortByValueDesc(ExactPct(parsed.holdings,
                                                                       total_value)) ]),
               raised |-> FALSE ]

\* SEC13FScraper.get_latest_filing is run on the document
XmlParse ==
    /\ document # << >>
    /\ xml_result = << >>
    /\ xml_result' = << GetLatestFilingXml(document) >>
    /\ UNCHANGED <<document, scrape_results>>
    /\ UNCHANGED <<sessionVars, disclosureVars, dbVars, resolverVars, amountVars, refreshVars>>

-----------------------------------------------------------------------------
(* The amount normaliser: SenateDisclosureScraper._parse_amount_range of       *)
(* src/scrapers/congress_disclosure_scraper.py.  Strings are tuples of        *)
(* one-character strings.                                                      *)

\* str.replace(c, "") for every c of a set of characters
RemoveChars(str, chars) == SelectSeq(str, LAMBDA c : c \notin chars)

\* str.lower() on the letters the modelled strings hold
LowerOf == ("O" :> "o") @@ ("V" :> "v") @@ ("E" :> "e") @@ ("R" :> "r")
               @@ ("N" :> "n") @@ ("A" :> "a")
Lower(str) == [ i \in DOMAIN str |-> IF str[i] \in DOMAIN LowerOf THEN LowerOf[str[i]] ELSE str[i] ]

\* pattern in text
Contains(text, pattern) ==
    \E i \in 0..(Len(text) - Len(pattern)) : SubSeq(text, i + 1, i + Len(pattern)) = pattern

\* The dict ranges of _parse_amount_range in insertion order: << key, values >>
AmountRanges ==
    << << << "1", "0", "0", "1", " ", "-", " ", "1", "5", "0", "0", "0" >>,
          << 1001, 15000 >> >>,
       << << "1", "5", "0", "0", "1", " ", "-", " ", "5", "0", "0", "0", "0" >>,
          << 15001, 50000 >> >>,
       << << "5", "0", "0", "0", "1", " ", "-", " ", "1", "0", "0", "0", "0", "0" >>,
          << 50001, 100000 >> >>,
       << << "1", "0", "0", "0", "0", "1", " ", "-", " ", "2", "5", "0", "0", "0", "0" >>,
          << 100001, 250000 >> >>,
       << << "2", "5", "0", "0", "0", "1", " ", "-", " ", "5", "0", "0", "0", "0", "0" >>,
          << 250001, 500000 >> >>,
       << << "5", "0", "0", "0", "0", "1", " ", "-", " ", "1", "0", "0", "0", "0", "0", "0" >>,
          << 500001, 1000000 >> >>,
       << << "1", "0", "0", "0", "0", "0", "1", " ", "-", " ", "5", "0", "0", "0", "0", "0", "0" >>,
          << 1000001, 5000000 >> >>,
       << << "5", "0", "0", "0", "0", "0", "1", " ", "-", " ", "2", "5", "0", "0", "0", "0", "0", "0" >>,
          << 5000001, 25000000 >> >>,
       << << "o", "v", "e", "r", " ", "5", "0", "0", "0", "0", "0", "0", "0" >>,
          << 50000000, 100000000 >> >> >>

\* The brackets as disclosures print them, in the order of the table
BracketDisplay ==
    << << "$", "1", ",", "0", "0", "1", " ", "-", " ", "$", "1", "5", ",", "0", "0", "0" >>,
       << "$", "1", "5", ",", "0", "0", "1", " ", "-", " ", "$", "5", "0", ",", "0", "0", "0" >>,
       << "$", "5", "0", ",", "0", "0", "1", " ", "-", " ", "$", "1", "0", "0", ",", "0", "0", "0" >>,
       << "$", "1", "0", "0", ",", "0", "0", "1", " ", "-", " ", "$", "2", "5", "0", ",", "0", "0", "0" >>,
       << "$", "2", "5", "0", ",", "0", "0", "1", " ", "-", " ", "$", "5", "0", "0", ",", "0", "0", "0" >>,
       << "$", "5", "0", "0", ",", "0", "0", "1", " ", "-", " ", "$", "1", ",", "0", "0", "0", ",", "0", "0", "0" >>,
       << "$", "1", ",", "0", "0", "0", ",", "0", "0", "1", " ", "-", " ", "$", "5", ",", "0", "0", "0", ",", "0", "0", "0" >>,
       << "$", "5", ",", "0", "0", "0", ",", "0", "0", "1", " ", "-", " ", "$", "2", "5", ",", "0", "0", "0", ",", "0", "0", "0" >>,
       << "o", "v", "e", "r", " ", "$", "5", "0", ",", "0", "0", "0", ",", "0", "0", "0" >> >>

\* int() of a run of decimal digits
DigitValue == [ c \in Digits |->
    CASE c = "0" -> 0 [] c = "1" -> 1 [] c = "2" -> 2 [] c = "3" -> 3 [] c = "4" -> 4
      [] c = "5" -> 5 [] c = "6" -> 6 [] c = "7" -> 7 [] c = "8" -> 8 [] c = "9" -> 9 ]
RECURSIVE ToInt(_)
ToInt(digits) ==
    IF digits = << >> THEN 0
    ELSE 10 * ToInt(SubSeq(digits, 1, Len(digits) - 1)) + DigitValue[digits[Len(digits)]]

\* re.findall(r'\d+', str): the maximal runs of digits, left to right
RECURSIVE FindNumbers(_)
FindNumbers(str) ==
    IF str = << >> THEN << >>
    ELSE IF str[1] \notin Digits THEN FindNumbers(Tail(str))
    ELSE LET stops == { i \in DOMAIN str : str[i] \notin Digits }
             run == IF stops = {} THEN Len(str)
                    ELSE (CHOOSE i \in stops : \A j \in stops : i <= j) - 1
         IN  << SubSeq(str, 1, run) >> \o FindNumbers(SubSeq(str, run + 1, Len(str)))

\* The indices of the table whose pattern the loop finds in
\* amount_str.lower().replace(" ", "")
MatchingRanges(str) ==
    LET text == RemoveChars(Lower(str), { " " })
    IN  { k \in DOMAIN AmountRanges : Contains(text, AmountRanges[k][1]) }

\* _parse_amount_range: the tuple returned and the diagnostics logged
ParseAmountRange(raw) ==
    LET amount_str_1 == RemoveChars(raw, { "$", "," })
        matching == MatchingRanges(amount_str_1)
        numbers == FindNumbers(amount_str_1)
        range == IF matching # {}
                 THEN AmountRanges[CHOOSE k \in matching : \A m \in matching : k <= m][2]
                 ELSE IF Len(numbers) >= 2 THEN << ToInt(numbers[1]), ToInt(numbers[2]) >>
                 ELSE IF Len(numbers) = 1 THEN << ToInt(numbers[1]), ToInt(numbers[1]) >>
                 ELSE << 0, 0 >>
    IN  [ range |-> range, diagnostics |-> << >> ]

\* The characters of the enumerated amount strings and the strings the
\* normaliser is applied to: the brackets as printed, the keys of the table,
\* the examples of three and more numbers, and every short string
AmountChars == { "1", "2", "$", " ", "-", ".", "N" }
AmountExamples ==
    { << "$", "2", "5", "0", ",", "0", "0", "0" >>,
      << "N", "/", "A" >>,
      << "1", " ", "2", " ", "1" >>,
      << "$", "1", ",", "2", "3", "4", ".", "5", "6" >> }
AmountStrings ==
    { BracketDisplay[k] : k \in DOMAIN BracketDisplay }
        \cup { AmountRanges[k][1] : k \in DOMAIN AmountRanges }
        \cup AmountExamples
        \cup UNION { [1..n -> AmountChars] : n \in 1..MaxAmountLen }

\* No amount string parsed yet
AmountIdle ==
    /\ amount_str = << >>
    /\ amount_result = << >>
    /\ assets = << >>

\* One asset row of _parse_senate_assets: the value range is parsed and the
\* Asset is appended when one of its bounds is positive
ParseAmount ==
    /\ amount_result = << >>
    /\ amount_str # << >>
    /\ LET r == ParseAmountRange(amount_str) IN
       /\ amount_result' = << r >>
       /\ assets' = IF r.range[1] > 0 \/ r.range[2] > 0
                    THEN << [ value_min |-> r.range[1], value_max |-> r.range[2] ] >>
                    ELSE << >>
    /\ UNCHANGED amount_str
    /\ UNCHANGED <<sessionVars, disclosureVars, dbVars, resolverVars, scrapeVars, refreshVars>>

\* The next row is read
NextAmount ==
    /\ amount_result # << >>
    /\ \E str \in AmountStrings : amount_str' = str
    /\ amount_result' = << >>
    /\ assets' = << >>
    /\ UNCHANGED <<sessionVars, disclosureVars, dbVars, resolverVars, scrapeVars, refreshVars>>

-----------------------------------------------------------------------------
(* The full refresh of the web application: do_full_refresh (app.py), started *)
(* by GET /api/refresh as a background task or by the daily scheduler job.    *)

\* The do_full_refresh runs of one process: any two of the background tasks
\* and the scheduler job
Runners == { 1, 2 }
SaveEvery == 10

\* SUPERINVESTORS: cik -> info, iterated in the order of the ciks
SUPERINVESTORS == [ cik \in Investors |-> [ name |-> << "name", cik >>, firm |-> << "firm", cik >> ] ]

\* What scrape_one returns for an investor: (result, None) or (None, error)
FilingValues == { 10, 20 }
FailureReasons == { "No holdings parsed" }
ScrapeOutcomes ==
    { [ result |-> Some([ value |-> v ]), error |-> "" ] : v \in FilingValues }
    \cup { [ result |-> None, error |-> e ] : e \in FailureReasons }

\* CACHE as the module defines it
EmptyCache ==
    [ investors |-> << >>, details |-> << >>, refresh_status |-> "idle",
      refresh_progress |-> 0, failed |-> << >> ]

\* d[cik] = result on a dict kept as the list of its items: a key already in
\* the dict keeps its place
DictSet(d, cik, result) ==
    IF \E i \in DOMAIN d : d[i].cik = cik
    THEN [ i \in DOMAIN d |-> IF d[i].cik = cik THEN result ELSE d[i] ]
    ELSE Append(d, result)

\* The list CACHE["investors"] is rebuilt from: the details by value descending
InvestorsList(details) == SortByValueDesc(details)

\* int((done / total) * 100); the float product is the exact one for the
\* totals modelled
Progress(d, total) == (d * 100) \div total

\* The first statements of do_full_refresh
StartRefresh(cache) ==
    [ cache EXCEPT !.refresh_status = "running", !.refresh_progress = 0, !.failed = << >> ]

\* A loop body that records successes only
VisitSkippingFailed(cache, cik, outcome, d) ==
    LET recorded ==
            IF outcome.result # None
            THEN [ cache EXCEPT !.details =
                       DictSet(@, cik, [ cik |-> cik, value |-> outcome.result[1].value ]) ]
            ELSE cache
    IN  [ recorded EXCEPT !.refresh_progress = Progress(d, NumInvestors) ]
\* One pass of the loop body after scrape_one returned outcome for cik, d being
\* the new value of done
VisitInvestor(cache, cik, outcome, d) ==
    LET recorded ==
            IF outcome.result # None
            THEN [ cache EXCEPT !.details =
                       DictSet(@, cik, [ cik |-> cik, value |-> outcome.result[1].value ]) ]
            ELSE [ cache EXCEPT !.failed =
                       Append(@, [ cik |-> cik, name |-> SUPERINVESTORS[cik].name,
                                   reason |-> outcome.error ]) ]
        progressed == [ recorded EXCEPT !.refresh_progress = Progress(d, NumInvestors) ]
    IN  IF d % SaveEvery = 0
        THEN [ progressed EXCEPT !.investors = InvestorsList(progressed.details) ]
        ELSE progressed

\* The statements after the loop
FinishRefresh(cache) ==
    [ cache EXCEPT !.investors = InvestorsList(cache.details),
                   !.refresh_status = "complete",
                   !.refresh_progress = 100 ]

RefreshIdle ==
    /\ CACHE = EmptyCache
    /\ CACHE_FILE = << >>
    /\ runState = [ r \in Runners |-> "none" ]
    /\ trigger = [ r \in Runners |-> "" ]
    /\ done = [ r \in Runners |-> 0 ]
    /\ visited = [ r \in Runners |-> << >> ]
    /\ response = ""

\* GET /api/refresh: refused while the status is "running", else the run is
\* handed to the background tasks
RefreshData ==
    /\ IF CACHE.refresh_status = "running"
       THEN /\ response' = "already_running"
            /\ UNCHANGED <<runState, trigger>>
       ELSE \E r \in Runners :
               /\ runState[r] = "none"
               /\ runState' = [ runState EXCEPT ![r] = "requested" ]
               /\ trigger' = [ trigger EXCEPT ![r] = "api" ]
               /\ response' = "started"
    /\ UNCHANGED <<CACHE, CACHE_FILE, done, visited>>
    /\ UNCHANGED <<sessionVars, disclosureVars, dbVars, resolverVars, amountVars, scrapeVars>>

\* The background task starts: do_full_refresh up to its loop
StartTask(r) ==
    /\ runState[r] = "requested"
    /\ runState' = [ runState EXCEPT ![r] = "running" ]
    /\ CACHE' = StartRefresh(CACHE)
    /\ CACHE_FILE' = << CACHE' >>
    /\ done' = [ done EXCEPT ![r] = 0 ]
    /\ UNCHANGED <<trigger, visited, response>>
    /\ UNCHANGED <<sessionVars, disclosureVars, dbVars, resolverVars, amountVars, scrapeVars>>

\* scheduled_13f_refresh fires inside a refresh window (outside it only
\* prints): it calls do_full_refresh in the scheduler's thread, whatever the
\* status is; the scheduler runs one instance of the job at a time
ScheduledRefresh(r) ==
    /\ runState[r] = "none"
    /\ \A q \in Runners : trigger[q] = "scheduler" => runState[q] = "done"
    /\ runState' = [ runState EXCEPT ![r] = "running" ]
    /\ trigger' = [ trigger EXCEPT ![r] = "scheduler" ]
    /\ CACHE' = StartRefresh(CACHE)
    /\ CACHE_FILE' = << CACHE' >>
    /\ done' = [ done EXCEPT ![r] = 0 ]
    /\ UNCHANGED <<visited, response>>
    /\ UNCHANGED <<sessionVars, disclosureVars, dbVars, resolverVars, amountVars, scrapeVars>>

\* One iteration of the loop of run r: scrape_one on the next investor, then
\* the bookkeeping
Visit(r) ==
    /\ runState[r] = "running"
    /\ done[r] < NumInvestors
    /\ \E outcome \in ScrapeOutcomes :
          LET cik == done[r] + 1 IN
          /\ visited' = [ visited EXCEPT ![r] = Append(@, [ cik |-> cik, outcome |-> outcome ]) ]
          /\ done' = [ done EXCEPT ![r] = @ + 1 ]
          /\ CACHE' = VisitInvestor(CACHE, cik, outcome, done[r] + 1)
          /\ CACHE_FILE' = IF (done[r] + 1) % SaveEvery = 0 THEN << CACHE' >> ELSE CACHE_FILE
    /\ UNCHANGED <<runState, trigger, response>>
    /\ UNCHANGED <<sessionVars, disclosureVars, dbVars, resolverVars, amountVars, scrapeVars>>

\* The loop of run r is over: the end of do_full_refresh (last_updated, a
\* time stamp, is left out)
Finish(r) ==
    /\ runState[r] = "running"
    /\ done[r] = NumInvestors
    /\ runState' = [ runState EXCEPT ![r] = "done" ]
    /\ CACHE' = FinishRefresh(CACHE)
    /\ CACHE_FILE' = << CACHE' >>
    /\ UNCHANGED <<trigger, done, visited, response>>
    /\ UNCHANGED <<sessionVars, disclosureVars, dbVars, resolverVars, amountVars, scrapeVars>>

-----------------------------------------------------------------------------
(* The annual financial disclosure (congress_disclosure_scraper.py):          *)
(* _categorize_asset and AnnualFinancialDisclosure.calculate_totals           *)

\* str.lower() on the letters A to Z
UpperToLower ==
    [ c \in { "A", "B", "C", "D", "E", "F", "G", "H", "I", "J", "K", "L", "M",
              "N", "O", "P", "Q", "R", "S", "T", "U", "V", "W", "X", "Y", "Z" } |->
        CASE c = "A" -> "a" [] c = "B" -> "b" [] c = "C" -> "c" [] c = "D" -> "d"
          [] c = "E" -> "e" [] c = "F" -> "f" [] c = "G" -> "g" [] c = "H" -> "h"
          [] c = "I" -> "i" [] c = "J" -> "j" [] c = "K" -> "k" [] c = "L" -> "l"
          [] c = "M" -> "m" [] c = "N" -> "n" [] c = "O" -> "o" [] c = "P" -> "p"
          [] c = "Q" -> "q" [] c = "R" -> "r" [] c = "S" -> "s" [] c = "T" -> "t"
          [] c = "U" -> "u" [] c = "V" -> "v" [] c = "W" -> "w" [] c = "X" -> "x"
          [] c = "Y" -> "y" [] c = "Z" -> "z" ]
DescLower(str) ==
    [ i \in DOMAIN str |-> IF str[i] \in DOMAIN UpperToLower THEN UpperToLower[str[i]] ELSE str[i] ]

\* The keyword lists of the seven tests, as written
RealEstateWords ==
    { << "r", "e", "a", "l", " ", "e", "s", "t", "a", "t", "e" >>,
      << "p", "r", "o", "p", "e", "r", "t", "y" >>,
      << "r", "e", "s", "i", "d", "e", "n", "c", "e" >>,
      << "h", "o", "m", "e" >>,
      << "l", "a", "n", "d" >>,
      << "h", "o", "u", "s", "e" >>,
      << "c", "o", "n", "d", "o" >>,
      << "f", "a", "r", "m" >> }
StockWords ==
    { << "s", "t", "o", "c", "k" >>,
      << "c", "o", "m", "m", "o", "n" >>,
      << "s", "h", "a", "r", "e" >>,
      << "e", "q", "u", "i", "t", "y" >>,
      << "c", "o", "r", "p" >>,
      << "i", "n", "c" >>,
      << "l", "t", "d" >>,
      << "l", "l", "c" >> }
BusinessWords ==
    { << "b", "u", "s", "i", "n", "e", "s", "s" >>,
      << "p", "a", "r", "t", "n", "e", "r", "s", "h", "i", "p" >>,
      << "l", "l", "c", " ", "m", "e", "m", "b", "e", "r" >>,
      << "o", "w", "n", "e", "r", "s", "h", "i", "p" >>,
      << "v", "e", "n", "t", "u", "r", "e" >>,
      << "c", "a", "p", "i", "t", "a", "l" >> }
RetirementWords ==
    { << "4", "0", "1", "k" >>,
      << "i", "r", "a" >>,
      << "p", "e", "n", "s", "i", "o", "n" >>,
      << "r", "e", "t", "i", "r", "e", "m", "e", "n", "t" >>,
      << "t", "s", "p" >>,
      << "t", "h", "r", "i", "f", "t" >> }
CashWords ==
    { << "b", "a", "n", "k" >>,
      << "c", "a", "s", "h" >>,
      << "m", "o", "n", "e", "y", " ", "m", "a", "r", "k", "e", "t" >>,
      << "c", "h", "e", "c", "k", "i", "n", "g" >>,
      << "s", "a", "v", "i", "n", "g", "s" >>,
      << "c", "d", " " >>,
      << "c", "e", "r", "t", "i", "f", "i", "c", "a", "t", "e" >> }
BondWords ==
    { << "b", "o", "n", "d" >>,
      << "t", "r", "e", "a", "s", "u", "r", "y" >>,
      << "m", "u", "n", "i", "c", "i", "p", "a", "l" >>,
      << "n", "o", "t", "e" >> }
FundWords ==
    { << "f", "u", "n", "d" >>,
      << "m", "u", "t", "u", "a", "l" >>,
      << "e", "t", "f" >>,
      << "i", "n", "d", "e", "x" >> }

\* any(word in desc_lower for word in words)
AnyWordIn(desc_lower, words) == \E word \in words : Contains(desc_lower, word)

\* The tests with Stocks tried before Real Estate
CategorizeStocksFirst(str) ==
    LET desc_lower == DescLower(str) IN
    IF AnyWordIn(desc_lower, StockWords) THEN "Stocks"
    ELSE IF AnyWordIn(desc_lower, RealEstateWords) THEN "Real Estate"
    ELSE IF AnyWordIn(desc_lower, BusinessWords) THEN "Business Interest"
    ELSE IF AnyWordIn(desc_lower, RetirementWords) THEN "Retirement"
    ELSE IF AnyWordIn(desc_lower, CashWords) THEN "Cash"
    ELSE IF AnyWordIn(desc_lower, BondWords) THEN "Bonds"
    ELSE IF AnyWordIn(desc_lower, FundWords) THEN "Mutual Funds"
    ELSE "Other"
\* _categorize_asset: the chain of if ... return
CategorizeAsset(str) ==
    LET desc_lower == DescLower(str) IN
    IF AnyWordIn(desc_lower, RealEstateWords) THEN "Real Estate"
    ELSE IF AnyWordIn(desc_lower, StockWords) THEN "Stocks"
    ELSE IF AnyWordIn(desc_lower, BusinessWords) THEN "Business Interest"
    ELSE IF AnyWordIn(desc_lower, RetirementWords) THEN "Retirement"
    ELSE IF AnyWordIn(desc_lower, CashWords) THEN "Cash"
    ELSE IF AnyWordIn(desc_lower, BondWords) THEN "Bonds"
    ELSE IF AnyWordIn(desc_lower, FundWords) THEN "Mutual Funds"
    ELSE "Other"

\* The descriptions: cells of the asset table that meet several keyword lists,
\* one list or none, and every string of up to MaxDescLen of a few characters
DescriptionExamples ==
    { << "H", "o", "m", "e", " ", "E", "q", "u", "i", "t", "y", " ", "F", "u", "n", "d" >>,
      << "L", "L", "C", " ", "M", "e", "m", "b", "e", "r" >>,
      << "V", "e", "n", "t", "u", "r", "e", " ", "C", "a", "p", "i", "t", "a", "l", " ", "F", "u", "n", "d" >>,
      << "I", "R", "A", " ", "C", "a", "s", "h" >>,
      << "B", "a", "n", "k", " ", "N", "o", "t", "e" >>,
      << "T", "r", "e", "a", "s", "u", "r", "y", " ", "F", "u", "n", "d" >>,
      << "I", "n", "d", "e", "x", " ", "E", "T", "F" >>,
      << "M", "i", "r", "a", "c", "l", "e" >>,
      << "G", "o", "l", "d" >> }
DescriptionChars == { "I", "i", "r", "a", "n", "c" }
Descriptions ==
    DescriptionExamples \cup UNION { [1..n -> DescriptionChars] : n \in 0..MaxDescLen }

\* The (value_min, value_max) of an asset or liability row; _parse_amount_range
\* also gives pairs whose first number is the larger one
ValueRanges ==
    { [ value_min |-> 500000, value_max |-> 1000000 ],
      [ value_min |-> 100000, value_max |-> 250000 ],
      [ value_min |-> 250000, value_max |-> 500000 ],
      [ value_min |-> 1234, value_max |-> 56 ] }
ValueLists == UNION { [1..n -> ValueRanges] : n \in 0..MaxItems }

\* sum(a.value_min for a in ...) and sum(a.value_max for a in ...)
RECURSIVE SumMins(_)
SumMins(items) == IF items = << >> THEN 0 ELSE items[1].value_min + SumMins(Tail(items))
RECURSIVE SumMaxes(_)
SumMaxes(items) == IF items = << >> THEN 0 ELSE items[1].value_max + SumMaxes(Tail(items))

\* The sums of the assets taken for the liabilities too
TotalsOfAssetsOnly(d) ==
    [ d EXCEPT !.total_assets_min = SumMins(d.assets),
               !.total_assets_max = SumMaxes(d.assets),
               !.total_liabilities_min = SumMins(d.assets),
               !.total_liabilities_max = SumMaxes(d.assets),
               !.net_worth_min = SumMins(d.assets) - SumMaxes(d.assets),
               !.net_worth_max = SumMaxes(d.assets) - SumMins(d.assets) ]
\* The net worth bounds taken the other way round
TotalsNetWorthSwapped(d) ==
    [ d EXCEPT !.total_assets_min = SumMins(d.assets),
               !.total_assets_max = SumMaxes(d.assets),
               !.total_liabilities_min = SumMins(d.liabilities),
               !.total_liabilities_max = SumMaxes(d.liabilities),
               !.net_worth_min = SumMaxes(d.assets) - SumMins(d.liabilities),
               !.net_worth_max = SumMins(d.assets) - SumMaxes(d.liabilities) ]
\* calculate_totals: the six assignments
CalculateTotalsOf(d) ==
    [ d EXCEPT !.total_assets_min = SumMins(d.assets),
               !.total_assets_max = SumMaxes(d.assets),
               !.total_liabilities_min = SumMins(d.liabilities),
               !.total_liabilities_max = SumMaxes(d.liabilities),
               !.net_worth_min = SumMins(d.assets) - SumMaxes(d.liabilities),
               !.net_worth_max = SumMaxes(d.assets) - SumMins(d.liabilities) ]

\* AnnualFinancialDisclosure(assets, liabilities): the totals default to 0
NewDisclosure(as, ls) ==
    [ assets |-> as, liabilities |-> ls,
      total_assets_min |-> 0, total_assets_max |-> 0,
      total_liabilities_min |-> 0, total_liabilities_max |-> 0,
      net_worth_min |-> 0, net_worth_max |-> 0 ]

CategorizeIdle ==
    /\ description = << >>
    /\ categories = << >>
TotalsIdle ==
    /\ disclosure = NewDisclosure(<< >>, << >>)
    /\ calculated = FALSE
DisclosureIdle == CategorizeIdle /\ TotalsIdle

\* _categorize_asset is called on the description
Categorize ==
    /\ Len(categories) < MaxCalls
    /\ categories' = Append(categories, CategorizeAsset(description))
    /\ UNCHANGED <<description, disclosure, calculated>>
    /\ UNCHANGED <<sessionVars, dbVars, resolverVars, amountVars, scrapeVars, refreshVars>>

\* disclosure.calculate_totals()
CalculateTotals ==
    /\ ~calculated
    /\ disclosure' = CalculateTotalsOf(disclosure)
    /\ calculated' = TRUE
    /\ UNCHANGED <<description, categories>>
    /\ UNCHANGED <<sessionVars, dbVars, resolverVars, amountVars, scrapeVars, refreshVars>>

\* load_cache() at import: CACHE is what the file holds, if there is a file
LoadCache(file) == IF file = << >> THEN EmptyCache ELSE file[1]

\* The process is stopped and started again: the threads of the old process
\* are gone with their runs, the module is imported anew and load_cache()
\* reads what the last save_cache() wrote
ProcessRestart ==
    /\ CACHE' = LoadCache(CACHE_FILE)
    /\ runState' = [ r \in Runners |-> "none" ]
    /\ trigger' = [ r \in Runners |-> "" ]
    /\ done' = [ r \in Runners |-> 0 ]
    /\ visited' = [ r \in Runners |-> << >> ]
    /\ response' = ""
    /\ UNCHANGED CACHE_FILE
    /\ UNCHANGED <<sessionVars, disclosureVars, dbVars, resolverVars, amountVars, scrapeVars>>

\* A session with nothing to commit, and no error logged
NoPending == [ filings |-> << >>, holdings |-> << >>, rest |-> << >>, call |-> << >> ]
SessionIdle ==
    /\ pending = NoPending
    /\ last_error = << >>

ExtraIdle == AmountIdle /\ ScrapeIdle /\ RefreshIdle /\ DisclosureIdle /\ SessionIdle

-----------------------------------------------------------------------------
(* The scrape job: scrape_13f_filings (tasks.py) and run_13f_scraper (cli.py) *)

\* job_service.start_job, then the loop starts at the first investor
StartJob ==
    /\ jobStatus # "running"
    /\ jobStatus' = "running"
    /\ jobPos' = 1
    /\ UNCHANGED <<filings, holdings, calls>>
    /\ UNCHANGED resolverVars
    /\ UNCHANGED extraVars

\* One iteration whose fetch returns no filing: continue
ScrapeNoFiling ==
    /\ jobStatus = "running" /\ jobPos \in Investors
    /\ jobPos' = jobPos + 1
    /\ UNCHANGED <<filings, holdings, calls, jobStatus>>
    /\ UNCHANGED resolverVars
    /\ UNCHANGED extraVars

\* One iteration whose fetched filing is stored already: continue
ScrapeExisting ==
    /\ jobStatus = "running" /\ jobPos \in Investors
    /\ \E acc \in 1..Len(filings) : AccessionExists(acc)
    /\ jobPos' = jobPos + 1
    /\ UNCHANGED <<filings, holdings, calls, jobStatus>>
    /\ UNCHANGED resolverVars
    /\ UNCHANGED extraVars

\* One iteration that stores a newly fetched filing: previous filing looked up,
\* filing created, holdings added with their changes, commit
ScrapeNew ==
    /\ jobStatus = "running" /\ jobPos \in Investors
    /\ Len(filings) < MaxFilings
    /\ \E filing_date \in Dates, holdings_data \in FetchedHoldings :
       \E prev_filing \in GetLatestFiling(jobPos) :
          LET accession_number == Len(filings) + 1
              filing_id == Len(filings) + 1
          IN  /\ ~AccessionExists(accession_number)
              /\ filings' = Append(filings,
                     [ id |-> filing_id,
                       superinvestor_id |-> jobPos,
                       accession_number |-> accession_number,
                       filing_date |-> filing_date,
                       positions_count |-> Len(holdings_data) ])
              /\ holdings' = holdings \o
                     AddedHoldings(holdings, jobPos, filing_id, holdings_data, prev_filing)
              /\ calls' = Append(calls,
                     [ superinvestor_id |-> jobPos,
                       filing_id |-> filing_id,
                       filing_date |-> filing_date,
                       holdings_data |-> holdings_data,
                       previous_filing_id |-> prev_filing ])
    /\ jobPos' = jobPos + 1
    /\ UNCHANGED jobStatus
    /\ UNCHANGED resolverVars
    /\ UNCHANGED extraVars

\* job_service.complete_job after the loop
CompleteJob ==
    /\ jobStatus = "running" /\ jobPos = NumInvestors + 1
    /\ jobStatus' = "completed"
    /\ jobPos' = 0
    /\ UNCHANGED <<filings, holdings, calls>>
    /\ UNCHANGED resolverVars
    /\ UNCHANGED extraVars

Init ==
    /\ filings = << >>
    /\ holdings = << >>
    /\ calls = << >>
    /\ jobStatus = "none"
    /\ jobPos = 0
    /\ ResolverStart({})
    /\ ExtraIdle

Next == StartJob \/ ScrapeNoFiling \/ ScrapeExisting \/ ScrapeNew \/ CompleteJob

Spec == Init /\ [][Next]_vars

-----------------------------------------------------------------------------
(* The scrape job with its database session: the loop body of one investor   *)
(* step by step, an exception possible at every step.  A new filing is dated *)
(* after the stored ones.                                                     *)

\* session.rollback() that keeps what was flushed
RollbackKeepsFlushed(committed, flushed) == committed \o flushed
\* session.rollback(): the table is what was committed
RolledBack(committed, flushed) == committed

\* The fetch returned no filing, or one that is stored: continue
JobNoFiling == pending = NoPending /\ ScrapeNoFiling
JobExisting == pending = NoPending /\ ScrapeExisting

\* create_filing: the new filing is added to the session and flushed
JobCreateFiling ==
    /\ jobStatus = "running" /\ jobPos \in Investors
    /\ pending = NoPending
    /\ Len(filings) < MaxFilings
    /\ \E holdings_data \in FetchedHoldings :
       \E prev_filing \in GetLatestFiling(jobPos) :
          LET filing_id == Len(filings) + 1 IN
          /\ ~AccessionExists(filing_id)
          /\ pending' =
                [ filings |-> << [ id |-> filing_id,
                                   superinvestor_id |-> jobPos,
                                   accession_number |-> filing_id,
                                   filing_date |-> filing_id,
                                   positions_count |-> Len(holdings_data) ] >>,
                  holdings |-> << >>,
                  rest |-> AddedHoldings(holdings, jobPos, filing_id, holdings_data, prev_filing),
                  call |-> << [ superinvestor_id |-> jobPos,
                                filing_id |-> filing_id,
                                filing_date |-> filing_id,
                                holdings_data |-> holdings_data,
                                previous_filing_id |-> prev_filing ] >> ]
    /\ UNCHANGED last_error
    /\ UNCHANGED <<dbVars, resolverVars, amountVars, scrapeVars, refreshVars, disclosureVars>>

\* add_holdings_with_changes: session.add of the next row
JobAddHolding ==
    /\ jobStatus = "running" /\ jobPos \in Investors
    /\ pending.rest # << >>
    /\ pending' = [ pending EXCEPT !.holdings = Append(@, Head(pending.rest)),
                                   !.rest = Tail(@) ]
    /\ UNCHANGED last_error
    /\ UNCHANGED <<dbVars, resolverVars, amountVars, scrapeVars, refreshVars, disclosureVars>>

\* session.commit() after the holdings were added and flushed
JobCommit ==
    /\ jobStatus = "running" /\ jobPos \in Investors
    /\ pending # NoPending
    /\ pending.rest = << >>
    /\ filings' = filings \o pending.filings
    /\ holdings' = holdings \o pending.holdings
    /\ calls' = calls \o pending.call
    /\ pending' = NoPending
    /\ jobPos' = jobPos + 1
    /\ UNCHANGED <<jobStatus, last_error>>
    /\ UNCHANGED <<resolverVars, amountVars, scrapeVars, refreshVars, disclosureVars>>

\* An exception in the loop body: logged, session.rollback(), next investor
JobError ==
    /\ jobStatus = "running" /\ jobPos \in Investors
    /\ last_error' = << [ investor |-> jobPos, filings |-> Len(pending.filings),
                          holdings |-> Len(pending.holdings) ] >>
    /\ filings' = RolledBack(filings, pending.filings)
    /\ holdings' = RolledBack(holdings, pending.holdings)
    /\ pending' = NoPending
    /\ jobPos' = jobPos + 1
    /\ UNCHANGED <<calls, jobStatus>>
    /\ UNCHANGED <<resolverVars, amountVars, scrapeVars, refreshVars, disclosureVars>>

InitRollback == Init

\* The steps of a started job
JobStep ==
    \/ JobNoFiling
    \/ JobExisting
    \/ JobCreateFiling
    \/ JobAddHolding
    \/ JobCommit
    \/ JobError
    \/ CompleteJob

NextRollback == StartJob \/ JobStep

\* A started job goes on
SpecRollback == InitRollback /\ [][NextRollback]_vars /\ WF_vars(JobStep)

-----------------------------------------------------------------------------
(* add_holdings_with_changes applied to one (current, previous) pair.  The     *)
(* database starts empty (no previous filing) or with one filing of investor  *)
(* 1 that an earlier scrape stored against no previous filing.                 *)

FirstFiling(holdings_data) ==
    [ id |-> 1, superinvestor_id |-> 1, accession_number |-> 1, filing_date |-> 1,
      positions_count |-> Len(holdings_data) ]

InitDiff ==
    /\ \/ filings = << >> /\ holdings = << >>
       \/ \E previous \in HoldingsData :
            /\ filings = << FirstFiling(previous) >>
            /\ holdings = AddedHoldings(<< >>, 1, 1, previous, 0)
    /\ calls = << >>
    /\ jobStatus = "none"
    /\ jobPos = 0
    /\ ResolverStart({})
    /\ ExtraIdle

\* The current filing of investor 1 is created and diffed against the stored one
DiffCurrent ==
    /\ calls = << >>
    /\ \E holdings_data \in HoldingsData :
          LET filing_id == Len(filings) + 1
              previous_filing_id == Len(filings)
          IN  /\ filings' = Append(filings,
                     [ id |-> filing_id, superinvestor_id |-> 1,
                       accession_number |-> filing_id, filing_date |-> MaxDate,
                       positions_count |-> Len(holdings_data) ])
              /\ holdings' = holdings \o
                     AddedHoldings(holdings, 1, filing_id, holdings_data, previous_filing_id)
              /\ calls' = << [ superinvestor_id |-> 1,
                               filing_id |-> filing_id,
                               filing_date |-> MaxDate,
                               holdings_data |-> holdings_data,
                               previous_filing_id |-> previous_filing_id ] >>
    /\ UNCHANGED <<jobStatus, jobPos>>
    /\ UNCHANGED resolverVars
    /\ UNCHANGED extraVars

NextDiff == DiffCurrent

SpecDiff == InitDiff /\ [][NextDiff]_vars

-----------------------------------------------------------------------------
(* The resolver specifications: one thread parsing document after document,    *)
(* and the background refresh running beside a single-investor re-scrape.     *)

DbEmpty ==
    /\ filings = << >>
    /\ holdings = << >>
    /\ calls = << >>
    /\ jobStatus = "none"
    /\ jobPos = 0

NextResolver ==
    \/ \E t \in Threads :
          \/ Parse(t)
          \/ FindUnknown(t)
          \/ Request(t)
          \/ UpdateCache(t)
          \/ SaveOpen(t)
          \/ SaveDump(t)
          \/ SaveClose(t)
          \/ Rewrite(t)
          \/ Return(t)
    \/ Restart

InitResolve == DbEmpty /\ ResolverStart({ 1 }) /\ ExtraIdle
SpecResolve == InitResolve /\ [][NextResolver]_vars

InitRace == DbEmpty /\ ResolverStart(Threads) /\ ExtraIdle
SpecRace == InitRace /\ [][NextResolver]_vars

-----------------------------------------------------------------------------
(* The amount normaliser applied to one string after another *)

InitAmount ==
    /\ DbEmpty
    /\ ResolverStart({})
    /\ \E str \in AmountStrings : amount_str = str
    /\ amount_result = << >>
    /\ assets = << >>
    /\ ScrapeIdle
    /\ RefreshIdle
    /\ DisclosureIdle
    /\ SessionIdle

NextAmountSpec == ParseAmount \/ NextAmount

SpecAmount == InitAmount /\ [][NextAmountSpec]_vars

-----------------------------------------------------------------------------
(* Both parsers applied to one raw document, scrape_one up to MaxRuns times in *)
(* a process that starts with an empty resolver cache.                         *)

InitScrape ==
    /\ DbEmpty
    /\ ResolverStart({})
    /\ AmountIdle
    /\ \E doc \in RawDocuments : document = doc
    /\ scrape_results = << >>
    /\ xml_result = << >>
    /\ RefreshIdle
    /\ DisclosureIdle
    /\ SessionIdle

NextScrape == ScrapeOneRun \/ XmlParse

SpecScrape == InitScrape /\ [][NextScrape]_vars

-----------------------------------------------------------------------------
(* The refresh runs of one process that starts without a cache file *)

InitRefresh ==
    DbEmpty /\ ResolverStart({}) /\ AmountIdle /\ ScrapeIdle /\ RefreshIdle /\ SessionIdle /\ DisclosureIdle

NextRefresh ==
    \/ RefreshData
    \/ \E r \in Runners : StartTask(r)
    \/ \E r \in Runners : ScheduledRefresh(r)
    \/ \E r \in Runners : Visit(r)
    \/ \E r \in Runners : Finish(r)

SpecRefresh == InitRefresh /\ [][NextRefresh]_vars

-----------------------------------------------------------------------------
(* The refresh runs with the process restarted at any moment.  A started run  *)
(* goes on as long as its process lives; requests, the scheduler and restarts *)
(* happen or not.                                                             *)

NextRestart == NextRefresh \/ ProcessRestart

RunsGoOn ==
    \A r \in Runners : /\ WF_vars(StartTask(r))
                       /\ WF_vars(Visit(r))
                       /\ WF_vars(Finish(r))

SpecRestart == InitRefresh /\ [][NextRestart]_vars /\ RunsGoOn

-----------------------------------------------------------------------------
(* The scrape job run again and again for investor 1: each run fetches a new  *)
(* filing and stores it against the latest stored one.  Between two runs the  *)
(* table of known codes may gain or lose the code of the second security.     *)

\* One fetched row of the second security: its ticker is the symbol when the
\* table knows the code at that run, None when it does not
ChainRow(cusip, resolved, shares) ==
    [ cusip |-> cusip,
      ticker |-> IF cusip = CusipApple THEN TickerApple
                 ELSE IF resolved THEN TickerOther ELSE None,
      issuer_name |-> IssuerName(cusip),
      shares |-> shares,
      value |-> shares * 10 ]

\* The fetched holdings lists: each security at most once, at least one row
ChainShares == { 80, 100 }
ChainHoldings ==
    LET apple == { << >> } \cup { << ChainRow(CusipApple, TRUE, n) >> : n \in ChainShares }
        other == { << >> } \cup { << ChainRow(CusipOther, r, n) >> : r \in BOOLEAN, n \in ChainShares }
    IN  { a \o o : a \in apple, o \in other } \ { << >> }

\* One iteration of the job loop for investor 1 that stores a new filing
StoreFiling ==
    /\ Len(filings) < MaxChain
    /\ \E holdings_data \in ChainHoldings :
       \E prev_filing \in GetLatestFiling(1) :
          LET filing_id == Len(filings) + 1 IN
          /\ ~AccessionExists(filing_id)
          /\ filings' = Append(filings,
                 [ id |-> filing_id, superinvestor_id |-> 1,
                   accession_number |-> filing_id, filing_date |-> filing_id,
                   positions_count |-> Len(holdings_data) ])
          /\ holdings' = holdings \o
                 AddedHoldings(holdings, 1, filing_id, holdings_data, prev_filing)
          /\ calls' = Append(calls,
                 [ superinvestor_id |-> 1, filing_id |-> filing_id,
                   filing_date |-> filing_id, holdings_data |-> holdings_data,
                   previous_filing_id |-> prev_filing ])
    /\ UNCHANGED <<jobStatus, jobPos>>
    /\ UNCHANGED resolverVars
    /\ UNCHANGED extraVars

InitChain == DbEmpty /\ ResolverStart({}) /\ ExtraIdle

NextChain == StoreFiling

SpecChain == InitChain /\ [][NextChain]_vars

-----------------------------------------------------------------------------
(* _categorize_asset called MaxCalls times on one description *)

InitCategorize ==
    /\ DbEmpty /\ ResolverStart({}) /\ AmountIdle /\ ScrapeIdle /\ RefreshIdle /\ SessionIdle /\ TotalsIdle
    /\ \E str \in Descriptions : description = str
    /\ categories = << >>

NextCategorize == Categorize

SpecCategorize == InitCategorize /\ [][NextCategorize]_vars

-----------------------------------------------------------------------------
(* calculate_totals on a disclosure with any assets and liabilities *)

InitTotals ==
    /\ DbEmpty /\ ResolverStart({}) /\ AmountIdle /\ ScrapeIdle /\ RefreshIdle /\ SessionIdle /\ CategorizeIdle
    /\ \E as \in ValueLists, ls \in ValueLists : disclosure = NewDisclosure(as, ls)
    /\ calculated = FALSE

NextTotals == CalculateTotals

SpecTotals == InitTotals /\ [][NextTotals]_vars

-----------------------------------------------------------------------------
(* Properties of the temporal diff *)

\* The identity of a holding: its ticker, else its cusip
Identity(h) == IF h.ticker # None THEN h.ticker ELSE h.cusip

\* Of one add_holdings_with_changes call c: the rows it wrote, the rows of the
\* previous filing it read, and the identities of both sides
Written(c) == HoldingsOfFiling(holdings, c.filing_id)
PreviousRows(c) ==
    IF c.previous_filing_id = 0 THEN << >>
    ELSE HoldingsOfFiling(holdings, c.previous_filing_id)
CurrentIds(c) == { Identity(c.holdings_data[i]) : i \in DOMAIN c.holdings_data }
PreviousIds(c) == { Identity(PreviousRows(c)[j]) : j \in DOMAIN PreviousRows(c) }
WrittenFor(c, id) == { i \in DOMAIN Written(c) : Identity(Written(c)[i]) = id }

\* The previous row an identity is joined with: the last one of that identity
JoinedPrevious(c, id) ==
    PreviousRows(c)[MaxOf({ j \in DOMAIN PreviousRows(c) :
                              Identity(PreviousRows(c)[j]) = id })]

Call(k) == calls[k]

\* C1 (as claimed): every call writes exactly one record per identity of the
\* union of current and previous identities - New for an identity only in
\* current, Closed for one only in previous - and |records| = |union|.
C1_OneRecordPerIdentity ==
    \A k \in DOMAIN calls :
        LET c == Call(k)
            union == CurrentIds(c) \cup PreviousIds(c)
        IN  /\ Len(Written(c)) = Cardinality(union)
            /\ \A id \in union :
                 /\ Cardinality(WrittenFor(c, id)) = 1
                 /\ id \notin PreviousIds(c) =>
                        \A i \in WrittenFor(c, id) : Written(c)[i].is_new
                 /\ id \notin CurrentIds(c) =>
                        \A i \in WrittenFor(c, id) : Written(c)[i].is_sold

\* C1 (amended): every call writes exactly one record per current row, New
\* exactly when the row's identity is no previous identity, and exactly one
\* Closed record per previous identity absent from current; the number of
\* records is |current rows| + |previous-only identities|, which is the size of
\* the union exactly when the current rows have pairwise distinct identities.
C1_OneRecordPerCurrentRow ==
    \A k \in DOMAIN calls :
        LET c == Call(k)
            data == c.holdings_data
            closed == PreviousIds(c) \ CurrentIds(c)
        IN  /\ Len(Written(c)) = Len(data) + Cardinality(closed)
            /\ \A i \in DOMAIN data :
                 /\ Identity(Written(c)[i]) = Identity(data[i])
                 /\ ~Written(c)[i].is_sold
                 /\ Written(c)[i].is_new <=> Identity(data[i]) \notin PreviousIds(c)
            /\ \A id \in closed :
                 /\ Cardinality(WrittenFor(c, id)) = 1
                 /\ \A i \in WrittenFor(c, id) :
                        Written(c)[i].is_sold /\ ~Written(c)[i].is_new
            /\ (Len(Written(c)) = Cardinality(CurrentIds(c) \cup PreviousIds(c)))
                 <=> (Cardinality(CurrentIds(c)) = Len(data))

\* A diff against a stored filing with a New identity, a Closed identity and
\* two current rows of one identity
C1_Witness ==
    \E k \in DOMAIN calls :
        LET c == Call(k) IN
        /\ c.previous_filing_id # 0
        /\ CurrentIds(c) \ PreviousIds(c) # {}
        /\ PreviousIds(c) \ CurrentIds(c) # {}
        /\ Len(c.holdings_data) > Cardinality(CurrentIds(c))

\* C2: for an identity in both filings the record has delta = qty_now - qty_prev
\* (0 when equal), pct = delta / qty_prev * 100 when qty_prev > 0, and pct None
\* exactly when qty_prev = 0; 100 shares against 80 gives +20 and +25.
C2_ChangeOfHeldPosition ==
    \A k \in DOMAIN calls :
        LET c == Call(k) IN
        \A i \in DOMAIN c.holdings_data :
            LET now == c.holdings_data[i]
                rec == Written(c)[i]
            IN  Identity(now) \in PreviousIds(c) =>
                  LET qty_prev == JoinedPrevious(c, Identity(now)).shares
                      delta == now.shares - qty_prev
                  IN  /\ ~rec.is_new
                      /\ rec.shares_change = Some(delta)
                      /\ now.shares = qty_prev => rec.shares_change = Some(0)
                      /\ qty_prev > 0 =>
                           /\ rec.shares_change_pct # None
                           /\ LET pct == rec.shares_change_pct[1] IN
                              pct[2] > 0 /\ pct[1] * qty_prev = delta * 100 * pct[2]
                      /\ rec.shares_change_pct = None <=> qty_prev = 0
                      /\ (now.shares = 100 /\ qty_prev = 80) =>
                           /\ rec.shares_change = Some(20)
                           /\ rec.shares_change_pct = Some(<< 25, 1 >>)

\* One diff holding a position raised from 80 to 100 shares and a position
\* whose previous quantity is 0
C2_Witness ==
    \E k \in DOMAIN calls :
        LET c == Call(k) IN
        /\ \E i \in DOMAIN c.holdings_data :
             /\ Identity(c.holdings_data[i]) \in PreviousIds(c)
             /\ c.holdings_data[i].shares = 100
             /\ JoinedPrevious(c, Identity(c.holdings_data[i])).shares = 80
        /\ \E i \in DOMAIN c.holdings_data :
             /\ Identity(c.holdings_data[i]) \in PreviousIds(c)
             /\ c.holdings_data[i].shares > 0
             /\ JoinedPrevious(c, Identity(c.holdings_data[i])).shares = 0

\* C3 (as claimed): an identity in current and not in previous gives a New
\* record with delta = +qty and pct = +100.
C3_NewIsFullBuy ==
    \A k \in DOMAIN calls :
        LET c == Call(k) IN
        \A i \in DOMAIN c.holdings_data :
            Identity(c.holdings_data[i]) \notin PreviousIds(c) =>
                /\ Written(c)[i].is_new
                /\ Written(c)[i].shares_change = Some(c.holdings_data[i].shares)
                /\ Written(c)[i].shares_change_pct = Some(<< 100, 1 >>)

\* C3 (amended): an identity in current and not in previous (also when there is
\* no previous filing) gives a record with is_new = true that carries the
\* current quantity and leaves delta and pct undefined (None).
C3_NewHasNoDelta ==
    \A k \in DOMAIN calls :
        LET c == Call(k) IN
        \A i \in DOMAIN c.holdings_data :
            Identity(c.holdings_data[i]) \notin PreviousIds(c) =>
                /\ Written(c)[i].is_new
                /\ ~Written(c)[i].is_sold
                /\ Written(c)[i].shares = c.holdings_data[i].shares
                /\ Written(c)[i].shares_change = None
                /\ Written(c)[i].shares_change_pct = None

\* A diff against a stored filing in which a position of non-zero quantity is New
C3_Witness ==
    \E k \in DOMAIN calls :
        LET c == Call(k) IN
        /\ c.previous_filing_id # 0
        /\ \E i \in DOMAIN c.holdings_data :
             /\ Identity(c.holdings_data[i]) \notin PreviousIds(c)
             /\ c.holdings_data[i].shares > 0
             /\ Written(c)[i].is_new

\* C4: every identity in previous and not in current gets one synthetic record
\* with the previous cusip, ticker and issuer name, shares = 0, value = 0,
\* is_sold, delta = -qty_prev and pct = -100, whatever qty_prev is.
C4_ClosedRecord ==
    \A k \in DOMAIN calls :
        LET c == Call(k) IN
        \A id \in PreviousIds(c) \ CurrentIds(c) :
            LET prev == JoinedPrevious(c, id) IN
            /\ Cardinality(WrittenFor(c, id)) = 1
            /\ \A i \in WrittenFor(c, id) :
                 LET rec == Written(c)[i] IN
                 /\ rec.cusip = prev.cusip
                 /\ rec.ticker = prev.ticker
                 /\ rec.issuer_name = prev.issuer_name
                 /\ rec.shares = 0
                 /\ rec.value = 0
                 /\ rec.is_sold
                 /\ rec.shares_change = Some(0 - prev.shares)
                 /\ rec.shares_change_pct = Some(<< 0 - 100, 1 >>)

\* C5: whenever the job stores and diffs a new filing, the filing used as
\* previous is the latest stored filing of the same investor whose filing date
\* is strictly earlier than the new filing's (none is used when there is none).
C5_PreviousIsStrictlyEarlier ==
    \A k \in DOMAIN calls :
        LET c == Call(k)
            earlier == { i \in 1..(c.filing_id - 1) :
                           /\ filings[i].superinvestor_id = c.superinvestor_id
                           /\ filings[i].filing_date < c.filing_date }
        IN  IF c.previous_filing_id = 0
            THEN earlier = {}
            ELSE /\ c.previous_filing_id \in earlier
                 /\ \A i \in earlier :
                      filings[i].filing_date <= filings[c.previous_filing_id].filing_date

-----------------------------------------------------------------------------
(* Properties of the identity resolver *)

\* The 6-character prefix of a 9-character code
FirstSix(code) == << code[1], code[2], code[3], code[4], code[5], code[6] >>

\* The full codes a lookup confirmed
ConfirmedCodes(t) == { c \in DOMAIN new_mappings[t] : Len(c) = 9 }

\* C6: the ticker get_ticker_for_cusip gives a code is the cache entry of the
\* exact code, else the cache entry of its 6-character prefix, else the static
\* table entry of the prefix, else the prefix itself.
C6_LookupOrder ==
    \A t \in Threads :
        pc[t] = "parsed" =>
            \A i \in DOMAIN scraped[t] :
                LET code == scraped[t][i].cusip
                    ticker == scraped[t][i].ticker
                    inExact == code \in DOMAIN CUSIP_CACHE
                    inPrefix == FirstSix(code) \in DOMAIN CUSIP_CACHE
                    inStatic == FirstSix(code) \in DOMAIN CUSIP_TO_TICKER
                IN  /\ inExact => ticker = CUSIP_CACHE[code]
                    /\ (~inExact /\ inPrefix) => ticker = CUSIP_CACHE[FirstSix(code)]
                    /\ (~inExact /\ ~inPrefix /\ inStatic) =>
                           ticker = CUSIP_TO_TICKER[FirstSix(code)]
                    /\ (~inExact /\ ~inPrefix /\ ~inStatic) => ticker = FirstSix(code)

\* A parsed document with one holding resolved by the prefix entry of the cache
\* (its exact code is not cached) and one resolved by the static table
C6_Witness ==
    \E t \in Threads :
        /\ pc[t] = "parsed"
        /\ \E i \in DOMAIN scraped[t] :
             /\ scraped[t][i].cusip \notin DOMAIN CUSIP_CACHE
             /\ FirstSix(scraped[t][i].cusip) \in DOMAIN CUSIP_CACHE
             /\ scraped[t][i].ticker = CUSIP_CACHE[FirstSix(scraped[t][i].cusip)]
        /\ \E i \in DOMAIN scraped[t] :
             /\ FirstSix(scraped[t][i].cusip) \notin DOMAIN CUSIP_CACHE
             /\ scraped[t][i].ticker = TickerApple

\* C7: a batch answered with status 429 is sent again (a bounded number of
\* times) before the lookup returns.
C7_ThrottledBatchIsResent ==
    \A t \in Threads :
        pc[t] \in { "update", "save_open", "save_dump", "save_close", "rewrite", "done" } =>
            \A k \in DOMAIN requests[t] :
                requests[t][k][2] = "throttled" =>
                    \E m \in DOMAIN requests[t] :
                        m > k /\ requests[t][m][1] = requests[t][k][1]

\* C8: whatever the external lookup does, no exception leaves the resolver, and
\* when scrape_one is done every holding's ticker is the 6-character prefix of
\* its code or a confirmed symbol (of the static table or of OpenFIGI) of a
\* code with that prefix.
C8_ResolutionNeverFails ==
    \A t \in Threads :
        /\ ~raised[t]
        /\ pc[t] = "done" =>
             \A i \in DOMAIN scraped[t] :
                 LET code == scraped[t][i].cusip
                     ticker == scraped[t][i].ticker
                 IN  \/ ticker = FirstSix(code)
                     \/ /\ FirstSix(code) \in DOMAIN CUSIP_TO_TICKER
                        /\ ticker = CUSIP_TO_TICKER[FirstSix(code)]
                     \/ \E c \in Codes : FirstSix(c) = FirstSix(code) /\ ticker = OpenFigi[c]

\* A finished parse whose lookup ended in an exception and left a holding
\* with its placeholder
C8_Witness ==
    \E t \in Threads :
        /\ pc[t] = "done"
        /\ \E k \in DOMAIN requests[t] : requests[t][k][2] = "exception"
        /\ \E i \in DOMAIN scraped[t] : scraped[t][i].ticker = FirstSix(scraped[t][i].cusip)

\* C9: after the mappings of a lookup were merged and saved, every
\* confirmed code is in the cache under its full code and under its prefix with
\* its confirmed symbol, and the file holds what the cache holds.
C9_BothKeysHoldConfirmedSymbol ==
    \A t \in Threads :
        pc[t] \in { "rewrite", "done" } =>
            /\ \A c \in ConfirmedCodes(t) :
                 /\ c \in DOMAIN CUSIP_CACHE
                 /\ CUSIP_CACHE[c] = new_mappings[t][c]
                 /\ FirstSix(c) \in DOMAIN CUSIP_CACHE
                 /\ CUSIP_CACHE[FirstSix(c)] = new_mappings[t][c]
            /\ ConfirmedCodes(t) # {} => LoadCusipCache(cacheFile) = CUSIP_CACHE

\* The codes one POST of thread t submitted, and how often the POSTs of the
\* running lookup submitted a code
Submitted(t, k) == Batch(unknown[t], requests[t][k][1])
TimesSubmitted(t, code) ==
    Cardinality({ kj \in { << k, j >> : k \in DOMAIN requests[t], j \in 1..Len(unknown[t]) } :
                    /\ kj[2] \in DOMAIN Submitted(t, kj[1])
                    /\ Submitted(t, kj[1])[kj[2]] = code })

\* C11: within one scrape_one run no lookup request is made before all records
\* are parsed; the lookup then runs once for the document, submits only codes
\* of parsed holdings that were left unresolved, each code at most once, and
\* sends no batch twice.
C11_LookupDeferredOncePerCode ==
    \A t \in Threads :
        /\ pc[t] \in { "idle", "parsed" } => requests[t] = << >>
        /\ \A k, m \in DOMAIN requests[t] :
               k # m => requests[t][k][1] # requests[t][m][1]
        /\ \A code \in Codes : TimesSubmitted(t, code) <= 1
        /\ \A k \in DOMAIN requests[t] :
               \A j \in DOMAIN Submitted(t, k) :
                   \E i \in DOMAIN scraped[t] : scraped[t][i].cusip = Submitted(t, k)[j]

\* A finished lookup for a document that holds the same unresolved code on two
\* records
C11_Witness ==
    \E t \in Threads :
        /\ pc[t] = "update"
        /\ requests[t] # << >>
        /\ \E i, j \in DOMAIN scraped[t] :
               /\ i # j
               /\ scraped[t][i].cusip = scraped[t][j].cusip
               /\ TimesSubmitted(t, scraped[t][i].cusip) = 1

\* C10: with two parses running side by side that both looked up the same
\* unresolved code, no confirmed mapping a parse has merged is lost: it stays in
\* the in-memory cache, and once no save is under way the cache file holds it.
C10_NoConfirmedMappingLost ==
    (Range(unknown[1]) \cap Range(unknown[2]) # {}) =>
        \A c \in applied :
            /\ c \in DOMAIN CUSIP_CACHE
            /\ CUSIP_CACHE[c] = OpenFigi[c]
            /\ (\A t \in Threads : pc[t] \notin { "save_open", "save_dump", "save_close" }) =>
                   /\ c \in DOMAIN LoadCusipCache(cacheFile)
                   /\ LoadCusipCache(cacheFile)[c] = OpenFigi[c]

-----------------------------------------------------------------------------
(* Properties of the amount normaliser *)

\* The strings of bracket k: as printed and as the table keys it
BracketStrings(k) == { BracketDisplay[k], AmountRanges[k][1] }
IsBracketString(str) == \E k \in DOMAIN AmountRanges : str \in BracketStrings(k)

\* C18: for every bracket string of the fixed table (the eight closed brackets
\* and the open-ended one) _parse_amount_range returns the bounds the table
\* lists for that bracket.
C18_BracketRoundTrip ==
    amount_result # << >> =>
        \A k \in DOMAIN AmountRanges :
            amount_str \in BracketStrings(k) =>
                amount_result[1].range = AmountRanges[k][2]

\* C19: for a string that is no bracket, two or more numeric substrings give
\* [first, second], exactly one gives [n, n], and none gives [0, 0] together
\* with an emitted 'ParseWarning: unrecognized amount format' diagnostic.
C19_NumbersOrWarning ==
    (amount_result # << >> /\ ~IsBracketString(amount_str)) =>
        LET numbers == FindNumbers(RemoveChars(amount_str, { "$", "," }))
            r == amount_result[1]
        IN  /\ Len(numbers) >= 2 => r.range = << ToInt(numbers[1]), ToInt(numbers[2]) >>
            /\ Len(numbers) = 1 => r.range = << ToInt(numbers[1]), ToInt(numbers[1]) >>
            /\ Len(numbers) = 0 =>
                  /\ r.range = << 0, 0 >>
                  /\ \E i \in DOMAIN r.diagnostics :
                         r.diagnostics[i] = "ParseWarning: unrecognized amount format"

\* C20: every range _parse_amount_range returns has min <= max, and so has
\* every Asset built from it.
C20_RangeIsInterval ==
    amount_result # << >> =>
        /\ amount_result[1].range[1] <= amount_result[1].range[2]
        /\ \A i \in DOMAIN assets : assets[i].value_min <= assets[i].value_max

-----------------------------------------------------------------------------
(* Properties of the parsers *)

\* The records of the document that carry a cusip, in document order
KeptRecords == SelectSeq(document.records, LAMBDA r : r.cusip # None)

\* The filings the scrape_one runs returned, and the one of SEC13FScraper
ScrapedFilings ==
    { scrape_results[k].result[1] :
        k \in { i \in DOMAIN scrape_results : scrape_results[i].result # None } }
XmlFilings ==
    { xml_result[k].filing[1] :
        k \in { i \in DOMAIN xml_result : xml_result[i].filing # None } }

\* out holds the records of kept, by value descending, records of equal value
\* in the order they have in kept
SortedStable(out, kept) ==
    /\ Len(out) = Len(kept)
    /\ \E order \in Orderings(DOMAIN kept) :
          /\ \A i \in DOMAIN out :
                /\ out[i].cusip = kept[order[i]].cusip
                /\ out[i].value = kept[order[i]].value
          /\ \A i, j \in DOMAIN out :
                i < j => /\ out[i].value >= out[j].value
                         /\ out[i].value = out[j].value => order[i] < order[j]

RECURSIVE SumOfPct(_)
SumOfPct(hs) == IF hs = << >> THEN 0 ELSE hs[1].pct + SumOfPct(Tail(hs))

\* C12: a filing returned by a parser has value equal to the sum of its
\* holdings' values and its holdings sorted by value descending, holdings of
\* equal value in document order.
C12_ValueIsSumSortedStable ==
    \A f \in ScrapedFilings \cup XmlFilings :
        /\ f.value = SumValues(f.holdings)
        /\ f.value = SumValues(KeptRecords)
        /\ SortedStable(f.holdings, KeptRecords)

\* A returned filing of three holdings whose document order is 10, 20, 10 with
\* two different securities of value 10
C12_Witness ==
    /\ Len(KeptRecords) = 3
    /\ KeptRecords[1].value = 10 /\ KeptRecords[2].value = 20 /\ KeptRecords[3].value = 10
    /\ KeptRecords[1].cusip # KeptRecords[3].cusip
    /\ \E f \in ScrapedFilings :
          /\ f.holdings[1].cusip = KeptRecords[2].cusip
          /\ f.holdings[2].cusip = KeptRecords[1].cusip
          /\ f.holdings[3].cusip = KeptRecords[3].cusip

\* C13: in every filing a parser produced each holding's percentage is
\* value / total * 100 (scrape_one: to the hundredth it is rounded to), the
\* percentages sum to at most 100 plus the rounding of the holdings, and every
\* percentage is 0 when the total is 0.  Percentages of scrape_one are in
\* hundredths of a percent.
C13_PctOfTotal ==
    /\ \A f \in ScrapedFilings :
          /\ \A i \in DOMAIN f.holdings :
                /\ f.value > 0 =>
                      LET error == f.holdings[i].pct * f.value - f.holdings[i].value * 10000
                      IN  2 * Abs(error) <= f.value
                /\ f.value = 0 => f.holdings[i].pct = 0
          /\ 2 * SumOfPct(f.holdings) <= 2 * 10000 + Len(f.holdings)
    /\ \A f \in XmlFilings :
          \A i \in DOMAIN f.holdings :
              f.holdings[i].pct = IF f.value > 0 THEN Rat(f.holdings[i].value * 100, f.value)
                                  ELSE << 0, 1 >>

\* A returned filing of three holdings of equal positive value: each has 33.33,
\* together 99.99
C13_Witness ==
    \E f \in ScrapedFilings :
        /\ Len(f.holdings) = 3
        /\ f.value > 0
        /\ \A i \in DOMAIN f.holdings : f.holdings[i].pct = 3333

\* C14: with both parsers, a record without cusip never appears among the
\* holdings and the filing is still produced from the other records: for a
\* well-formed document with a record without cusip and at least one record
\* with cusip, each parser returns a filing holding the records with cusip.
C14_RecordWithoutCusipDropped ==
    (/\ document # << >>
     /\ document.wellformed
     /\ KeptRecords # << >>
     /\ Len(KeptRecords) < Len(document.records)) =>
        /\ \A k \in DOMAIN scrape_results :
              /\ scrape_results[k].result # None
              /\ SortedStable(scrape_results[k].result[1].holdings, KeptRecords)
        /\ \A k \in DOMAIN xml_result :
              /\ xml_result[k].filing # None
              /\ SortedStable(xml_result[k].filing[1].holdings, KeptRecords)

\* C15: a document that tokenizes and holds no record, and a document that
\* cannot be tokenized, each give a returned result and no exception, and the
\* caller can tell them apart: the result of a document without holdings is
\* given to no document that is not well-formed.
C15_NoHoldingsAndMalformedDistinct ==
    /\ \A k \in DOMAIN scrape_results :
          /\ ~scrape_results[k].raised
          /\ scrape_results[k].error = "No holdings parsed" => document.wellformed
    /\ \A k \in DOMAIN xml_result : ~xml_result[k].raised

\* C17: two scrape_one runs on the same raw document, one after the other in
\* one process, return the same filing, whatever the external lookup answers.
C17_SameDocumentSameFiling ==
    \A k, m \in DOMAIN scrape_results : scrape_results[k] = scrape_results[m]

-----------------------------------------------------------------------------
(* Properties of the full refresh *)

\* The failed entries a run owes for what it visited, in the order of the visits
RECURSIVE FailedEntries(_)
FailedEntries(vs) ==
    IF vs = << >> THEN << >>
    ELSE LET v == vs[1] IN
         (IF v.outcome.result = None
          THEN << [ cik |-> v.cik, name |-> SUPERINVESTORS[v.cik].name,
                    reason |-> v.outcome.error ] >>
          ELSE << >>) \o FailedEntries(Tail(vs))

\* What a step of run r does for the batch: a visit is of the next investor of
\* SUPERINVESTORS and leaves a failed entry or a details entry; the run ends
\* only after every investor was visited once, with the status and progress of
\* a finished refresh; a run that was the only one leaves exactly the failed
\* entries of its failing investors
RunStep(r) ==
    /\ visited'[r] # visited[r] =>
          LET v == visited'[r][Len(visited'[r])] IN
          /\ visited'[r] = Append(visited[r], v)
          /\ v.cik = Len(visited[r]) + 1
          /\ v.cik \in Investors
          /\ IF v.outcome.result = None
             THEN /\ CACHE'.failed = Append(CACHE.failed,
                                            [ cik |-> v.cik, name |-> SUPERINVESTORS[v.cik].name,
                                              reason |-> v.outcome.error ])
                  /\ CACHE'.details = CACHE.details
             ELSE /\ [ cik |-> v.cik, value |-> v.outcome.result[1].value ] \in Range(CACHE'.details)
                  /\ CACHE'.failed = CACHE.failed
    /\ (runState[r] = "running" /\ runState'[r] = "done") =>
          /\ Len(visited[r]) = NumInvestors
          /\ \A cik \in Investors : visited[r][cik].cik = cik
          /\ CACHE'.refresh_status = "complete"
          /\ CACHE'.refresh_progress = 100
          /\ (\A q \in Runners \ { r } : runState[q] = "none") =>
                CACHE'.failed = FailedEntries(visited[r])

\* C16: a batch run continues past failing investors: whatever scrapes fail,
\* do_full_refresh visits every investor of SUPERINVESTORS exactly once, in
\* order, records one failed entry (cik, name, reason) per failing investor and
\* a details entry per succeeding one, and ends with refresh_status "complete"
\* and refresh_progress 100.
C16_BatchContinuesPastFailures == [][\A r \in Runners : RunStep(r)]_vars

\* A run alone has ended after its first investor failed and a later one
\* succeeded
C16_Witness ==
    \E r \in Runners :
        /\ runState[r] = "done"
        /\ \A q \in Runners \ { r } : runState[q] = "none"
        /\ visited[r][1].outcome.result = None
        /\ visited[r][NumInvestors].outcome.result # None
        /\ Len(CACHE.failed) >= 1
        /\ CACHE.failed[1].cik = 1
        /\ Len(CACHE.details) >= 1
        /\ CACHE.refresh_status = "complete"
        /\ CACHE.refresh_progress = 100

-----------------------------------------------------------------------------
(* Properties of the annual financial disclosure *)

\* The sum of one component over the items, added up from the left
SumLeft(items, Component(_)) ==
    LET acc[i \in 0..Len(items)] == IF i = 0 THEN 0 ELSE acc[i - 1] + Component(items[i])
    IN  acc[Len(items)]
ValueMin(item) == item.value_min
ValueMax(item) == item.value_max

\* C21: calculate_totals sets total_assets to (sum of asset mins, sum of asset
\* maxes), total_liabilities likewise over the liabilities, net_worth_min to
\* total_assets_min - total_liabilities_max and net_worth_max to
\* total_assets_max - total_liabilities_min, for any lists, empty ones
\* included; assets (500000, 1000000), (100000, 250000) and liability
\* (250000, 500000) give net worth (100000, 1000000).
C21_TotalsAreComponentSums ==
    calculated =>
        /\ disclosure.total_assets_min = SumLeft(disclosure.assets, ValueMin)
        /\ disclosure.total_assets_max = SumLeft(disclosure.assets, ValueMax)
        /\ disclosure.total_liabilities_min = SumLeft(disclosure.liabilities, ValueMin)
        /\ disclosure.total_liabilities_max = SumLeft(disclosure.liabilities, ValueMax)
        /\ disclosure.net_worth_min =
              SumLeft(disclosure.assets, ValueMin) - SumLeft(disclosure.liabilities, ValueMax)
        /\ disclosure.net_worth_max =
              SumLeft(disclosure.assets, ValueMax) - SumLeft(disclosure.liabilities, ValueMin)
        /\ (/\ disclosure.assets = << [ value_min |-> 500000, value_max |-> 1000000 ],
                                     [ value_min |-> 100000, value_max |-> 250000 ] >>
            /\ disclosure.liabilities = << [ value_min |-> 250000, value_max |-> 500000 ] >>) =>
              /\ disclosure.net_worth_min = 100000
              /\ disclosure.net_worth_max = 1000000

\* The totals of the example of two assets and one liability were calculated
C21_Witness ==
    /\ calculated
    /\ disclosure.assets = << [ value_min |-> 500000, value_max |-> 1000000 ],
                              [ value_min |-> 100000, value_max |-> 250000 ] >>
    /\ disclosure.liabilities = << [ value_min |-> 250000, value_max |-> 500000 ] >>
    /\ disclosure.total_assets_min = 600000
    /\ disclosure.total_liabilities_max = 500000

\* C22: after calculate_totals, net_worth_min <= net_worth_max whenever
\* total_assets_min <= total_assets_max and total_liabilities_min <=
\* total_liabilities_max.
C22_NetWorthOrdered ==
    (/\ calculated
     /\ disclosure.total_assets_min <= disclosure.total_assets_max
     /\ disclosure.total_liabilities_min <= disclosure.total_liabilities_max) =>
        disclosure.net_worth_min <= disclosure.net_worth_max

\* Totals were calculated for ordered totals of assets and of liabilities, both
\* lists non-empty and the net worth bounds different
C22_Witness ==
    /\ calculated
    /\ disclosure.assets # << >>
    /\ disclosure.liabilities # << >>
    /\ disclosure.total_assets_min <= disclosure.total_assets_max
    /\ disclosure.total_liabilities_min < disclosure.total_liabilities_max
    /\ disclosure.net_worth_min < disclosure.net_worth_max

\* The rule list in the order Real Estate, Stocks, Business Interest,
\* Retirement, Cash, Bonds, Mutual Funds
RuleList ==
    << << "Real Estate", RealEstateWords >>, << "Stocks", StockWords >>,
       << "Business Interest", BusinessWords >>, << "Retirement", RetirementWords >>,
       << "Cash", CashWords >>, << "Bonds", BondWords >>, << "Mutual Funds", FundWords >> >>

\* The category of the first rule one of whose keywords is a substring of the
\* lower-cased description, Other when there is none
FirstMatch(str) ==
    LET hits == { i \in DOMAIN RuleList : AnyWordIn(DescLower(str), RuleList[i][2]) }
    IN  IF hits = {} THEN "Other"
        ELSE RuleList[CHOOSE i \in hits : \A j \in hits : i <= j][1]

\* C23: _categorize_asset returns the category of the first rule, in the order
\* Real Estate, Stocks, Business Interest, Retirement, Cash, Bonds, Mutual
\* Funds, one of whose keywords is a substring of the lower-cased description,
\* Other when none matches, and the same description always gets the same
\* category.
C23_FirstMatchWins ==
    /\ \A k \in DOMAIN categories : categories[k] = FirstMatch(description)
    /\ \A k, m \in DOMAIN categories : categories[k] = categories[m]

\* A description with keywords of three rules was categorized twice by the
\* first of them
C23_Witness ==
    /\ description = << "H", "o", "m", "e", " ", "E", "q", "u", "i", "t", "y", " ", "F", "u", "n", "d" >>
    /\ categories = << "Real Estate", "Real Estate" >>

-----------------------------------------------------------------------------
(* Properties of a sequence of filings of one investor *)

\* The rows stored under a filing, and those of them that are synthetic
RowsOf(filing_id) == HoldingsOfFiling(holdings, filing_id)
SoldRowsOf(filing_id) == { r \in Range(RowsOf(filing_id)) : r.is_sold }
HeldRowsOf(filing_id) == { r \in Range(RowsOf(filing_id)) : ~r.is_sold }

\* The calls that diffed a filing against a stored previous one
DiffCalls == { k \in DOMAIN calls : calls[k].previous_filing_id # 0 }

\* C24: a security stored under its code (no ticker) in the previous filing
\* and fetched with its symbol for the current filing gets both a New record
\* and a Closed record in the current filing.
C24_ResolvedLaterIsNewAndClosed ==
    \A k \in DiffCalls :
        \A p \in HeldRowsOf(calls[k].previous_filing_id) :
            \A i \in DOMAIN calls[k].holdings_data :
                LET h == calls[k].holdings_data[i] IN
                (p.ticker = None /\ h.cusip = p.cusip /\ h.ticker # None) =>
                    /\ \E r \in HeldRowsOf(calls[k].filing_id) : r.cusip = h.cusip /\ r.is_new
                    /\ \E r \in SoldRowsOf(calls[k].filing_id) : r.cusip = h.cusip

\* C25: a position Closed in filing N and absent from the holdings fetched for
\* filing N+1 has no record in filing N+1.
C25_ClosedStaysOut ==
    \A k \in DiffCalls :
        \A p \in SoldRowsOf(calls[k].previous_filing_id) :
            (\A i \in DOMAIN calls[k].holdings_data : Key(calls[k].holdings_data[i]) # Key(p)) =>
                \A r \in Range(RowsOf(calls[k].filing_id)) : Key(r) # Key(p)

\* C26: a position Closed in filing N that the holdings fetched for filing N+1
\* report again is New in filing N+1.
C26_ReboughtIsNew ==
    \A k \in DiffCalls :
        \A p \in SoldRowsOf(calls[k].previous_filing_id) :
            \A r \in HeldRowsOf(calls[k].filing_id) :
                Key(r) = Key(p) => r.is_new

-----------------------------------------------------------------------------
(* Properties of the refresh triggers and of what a refresh leaves *)

\* The runs that were requested or are running
RunsUnderWay == { r \in Runners : runState[r] \in { "requested", "running" } }

\* C27: at most one do_full_refresh run is requested or running at any time,
\* whatever the order of requests, task starts and scheduler firings.
C27_AtMostOneRun == Cardinality(RunsUnderWay) <= 1

\* C28: whenever refresh_status is "running" a refresh run is in progress, also
\* after a restart that reloaded the cache file, and the status "running"
\* leads to "complete".
C28_RunningLeadsToComplete ==
    /\ [](CACHE.refresh_status = "running" => \E r \in Runners : runState[r] = "running")
    /\ (CACHE.refresh_status = "running") ~> (CACHE.refresh_status = "complete")

\* The ciks of a list of entries
CiksOf(entries) == { entries[i].cik : i \in DOMAIN entries }

\* C30: once a refresh has completed and none is under way, no investor of the
\* failed list has an entry in CACHE["details"] or CACHE["investors"].
C30_FailedAndServedDisjoint ==
    (CACHE.refresh_status = "complete" /\ RunsUnderWay = {}) =>
        /\ CiksOf(CACHE.failed) \cap CiksOf(CACHE.details) = {}
        /\ CiksOf(CACHE.failed) \cap CiksOf(CACHE.investors) = {}

-----------------------------------------------------------------------------
(* Properties of the job's transactions *)

\* A step that ends the handling of an investor with uncommitted rows and
\* without a commit leaves the tables as they were and goes to the next
\* investor of the running job
ErrorStepFrame ==
    (pending # NoPending /\ pending' = NoPending /\ calls' = calls) =>
        /\ filings' = filings
        /\ holdings' = holdings
        /\ jobPos' = jobPos + 1
        /\ jobStatus' = "running"

\* The tables hold the filings of the committed calls, each with all its rows,
\* and nothing else
CommittedWhole ==
    /\ Len(filings) = Len(calls)
    /\ \A k \in DOMAIN calls :
          /\ filings[k].id = calls[k].filing_id
          /\ filings[k].superinvestor_id = calls[k].superinvestor_id
          /\ Len(HoldingsOfFiling(holdings, calls[k].filing_id)) >= Len(calls[k].holdings_data)
    /\ \A i \in DOMAIN holdings :
          \E k \in DOMAIN calls : holdings[i].filing_id = calls[k].filing_id

====
